---- MODULE Spec2Model ----
(***************************************************************************)
(* TemporalDB: content-addressed object store, Merkle trees, refs, commits *)
(* and branches, modelled from src/unnamed/part_000 (index.js, storage.js) *)
(* and src/unnamed/part_001 (diff.js, merkle.js, merge.js, branch.js).     *)
(*                                                                         *)
(* A structured value is the record [t, v, c]: t is the JavaScript type    *)
(* ("null", "boolean", "number", "string", "object", "array", and          *)
(* "undefined" for the absent value), v the text of a primitive, c the     *)
(* own properties of a mapping or a sequence (a sequence has the keys      *)
(* "0" .. "n-1", as Object.keys gives them) and n the length of a          *)
(* sequence.  Property keys have at most one character.                    *)
(***************************************************************************)
EXTENDS Integers, Sequences, FiniteSets, TLC

VARIABLES
  objects,      \* IndexedDB store 'objects': hash -> node record
  refs,         \* IndexedDB store 'refs': name -> string (HEAD included)
  commits,      \* IndexedDB store 'commits' (keyPath 'hash'): hash -> record
  initialized,  \* TemporalDB.initialized
  now,          \* the clock read by Date.now()
  last,         \* the last completed engine call: arguments and outcome
  procs,        \* the engine calls in flight, each at a suspension point
  ncalls,       \* the calls counted against MaxCommits or MaxAsyncCalls
  mergeResult,  \* the MergeResult object the caller holds
  nmerges       \* the merge calls made

vars ==
  <<objects, refs, commits, initialized, now, last, procs, ncalls, mergeResult,
    nmerges>>

---------------------------------------------------------------------------
(* Bounds *)

MaxTime == 2
MaxCommits == 2
MaxAsyncCalls == 2
MaxMerges == 1
MaxMergeCommits == 2
MaxResolveCommits == 2
MaxTerminalCalls == 2
MaxForkCommits == 3
MaxLifeCommits == 1
MaxHistoryCommits == 2
MaxCutCommits == 2
MaxHeadCalls == 2

---------------------------------------------------------------------------
(* The value universe *)

Leaf(t, v) == [t |-> t, v |-> v, c |-> <<>>, n |-> 0]
Obj(c) == [t |-> "object", v |-> "", c |-> c, n |-> 0]
ArrN(c, n) == [t |-> "array", v |-> "", c |-> c, n |-> n]
Arr(c) == ArrN(c, Cardinality(DOMAIN c))
Undefined == Leaf("undefined", "")
Null == Leaf("null", "null")
Num1 == Leaf("number", "1")
Str1 == Leaf("string", "1")

EmptyObj == Obj(<<>>)
EmptyArr == Arr(<<>>)

\* Own property keys in the order JavaScript enumerates them: integer
\* indices ascending, then the other keys (inserted in sorted order).
KeySeq == <<"0", "1", "", "a", "settings", "theme">>

\* isIndex(key) of lodash and the index a key stands for.
IsIndex(k) == k \in {"0", "1"}
KeyIndex(k) == IF k = "0" THEN 0 ELSE 1

\* The length of the array that has elements at the index keys of ks.
ArrayLength(ks) ==
  IF \E k \in ks : IsIndex(k)
  THEN 1 + CHOOSE i \in {KeyIndex(k) : k \in {x \in ks : IsIndex(x)}} :
             \A k \in ks : IsIndex(k) => KeyIndex(k) <= i
  ELSE 0

OwnKeys(c) == SelectSeq(KeySeq, LAMBDA k : k \in DOMAIN c)

IsComposite(x) == x.t \in {"object", "array"}

\* The values handed to commit.
CommitValues == {EmptyArr, Num1, Obj("0" :> EmptyObj @@ "a" :> EmptyArr)}

\* The values handed to commit by concurrent callers: a tree of two nodes.
AsyncValues == {Obj("a" :> Num1)}

\* The values handed to commit where branches are merged.
MergeValues == {Obj("a" :> Num1)}
ResolveValues == [main |-> {Obj("a" :> Num1)}, feature |-> {Obj("a" :> Str1)}]

Branches == {"main", "feature"}
Messages == {"m"}

\* Values of a ref, a parent or a lookup that are not hashes.
NoRef == "undefined"
NullParent == "null"

---------------------------------------------------------------------------
(* merkle.js *)

\* CryptoJS.SHA256(json).toString(): an injective digest of the text.
SHA256(json) == "h(" \o json \o ")"

\* JSON.stringify of a primitive.
StringifyPrim(t, v) ==
  IF t = "string" THEN "\"" \o v \o "\""
  ELSE IF t \in {"null", "undefined"} THEN "null"
  ELSE v

RECURSIVE JoinMembers(_, _)
JoinMembers(ks, h) ==
  IF ks = <<>> THEN ""
  ELSE "\"" \o Head(ks) \o "\":\"" \o h[Head(ks)] \o "\""
       \o (IF Len(ks) > 1 THEN "," ELSE "")
       \o JoinMembers(Tail(ks), h)

\* JSON.stringify of the childrenHashes object {key: hash}.
StringifyHashes(h) == "{" \o JoinMembers(OwnKeys(h), h) \o "}"

\* MerkleTree.hashData of a primitive and of a childrenHashes object.
hashDataPrim(t, v) == SHA256(StringifyPrim(t, v))
hashDataChildren(h) == SHA256(StringifyHashes(h))

Tree(h, t, v, ch) == [hash |-> h, type |-> t, value |-> v, children |-> ch]

RECURSIVE fromObject(_)
fromObject(data) ==
  IF data.t \in {"null", "undefined"}
  THEN Tree(hashDataPrim("null", "null"), "null", "null", <<>>)
  ELSE IF ~IsComposite(data)
  THEN Tree(hashDataPrim(data.t, data.v), data.t, data.v, <<>>)
  ELSE LET children == [k \in DOMAIN data.c |-> fromObject(data.c[k])]
           childrenHashes == [k \in DOMAIN data.c |-> children[k].hash]
       IN Tree(hashDataChildren(childrenHashes), data.t, "", children)

ErrTree == Tree("", "error", "", <<>>)

RECURSIVE toObject(_)
toObject(tree) ==
  IF tree.type \notin {"object", "array"}
  THEN Leaf(tree.type, tree.value)
  ELSE [t |-> tree.type, v |-> "",
        c |-> [k \in DOMAIN tree.children |-> toObject(tree.children[k])],
        n |-> IF tree.type = "array" THEN ArrayLength(DOMAIN tree.children)
              ELSE 0]

\* A node record as Storage.put writes it (JSON) and Storage.get parses it.
Node(t, v, ch) == [type |-> t, value |-> v, children |-> ch]

\* A put that keeps the record already stored under the hash.
put_ifAbsent(objs, node, hash) ==
  IF hash \in DOMAIN objs THEN objs ELSE (hash :> node) @@ objs

\* Storage.put(data, providedHash): store.put overwrites.
put(objs, node, hash) == (hash :> node) @@ objs

RECURSIVE FlattenPuts(_, _)
RECURSIVE storeTreePuts(_)

\* The puts of the children of a node, in key order.
FlattenPuts(ks, children) ==
  IF ks = <<>> THEN <<>>
  ELSE storeTreePuts(children[Head(ks)]) \o FlattenPuts(Tail(ks), children)

\* The sequence of Storage.put calls MerkleTree.storeTree makes, post-order.
storeTreePuts(tree) ==
  IF tree.type \notin {"object", "array"}
  THEN << [hash |-> tree.hash, node |-> Node(tree.type, tree.value, <<>>)] >>
  ELSE FlattenPuts(OwnKeys(tree.children), tree.children)
       \o << [hash |-> tree.hash,
              node |-> Node(tree.type, "",
                            [k \in DOMAIN tree.children |->
                               tree.children[k].hash])] >>

RECURSIVE applyPuts(_, _)
applyPuts(objs, puts) ==
  IF puts = <<>> THEN objs
  ELSE applyPuts(put(objs, Head(puts).node, Head(puts).hash), Tail(puts))

storeTree(objs, tree) == applyPuts(objs, storeTreePuts(tree))

RECURSIVE retrieveTree(_, _)
retrieveTree(objs, hash) ==
  IF hash \notin DOMAIN objs THEN ErrTree
  ELSE LET node == objs[hash] IN
       IF node.type \notin {"object", "array"}
       THEN Tree(hash, node.type, node.value, <<>>)
       ELSE LET children == [k \in DOMAIN node.children |->
                               retrieveTree(objs, node.children[k])]
            IN IF \E k \in DOMAIN children : children[k] = ErrTree
               THEN ErrTree
               ELSE Tree(hash, node.type, "", children)

---------------------------------------------------------------------------
(* storage.js path utilities (lodash get, set, unset) and diff.js.  A path *)
(* is the sequence of the characters of the dotted string.                 *)

\* The characters of a property key, and the key they spell.
KeyChars(k) == IF k = "" THEN <<>> ELSE <<k>>

RECURSIVE CharsToKey(_)
CharsToKey(cs) == IF cs = <<>> THEN "" ELSE Head(cs) \o CharsToKey(Tail(cs))

\* path || '.'
OrDot(path) == IF path = <<>> THEN <<".">> ELSE path

\* path ? `${path}.${key}` : key
ChildPath(path, key) ==
  IF path # <<>> THEN path \o <<".">> \o KeyChars(key) ELSE KeyChars(key)

\* String.prototype.startsWith.
StartsWith(str, prefix) ==
  Len(prefix) <= Len(str) /\ SubSeq(str, 1, Len(prefix)) = prefix

\* The end of the run of characters other than '.' that starts at i.
RunEnd(str, i) ==
  CHOOSE j \in i .. Len(str) :
    /\ \A k \in i .. j : str[k] # "."
    /\ j = Len(str) \/ str[j + 1] = "."

\* The matches of lodash's rePropName from position i on: a run of
\* characters other than '.' is a key; a '.' followed by '.' or by the end
\* of the string gives the empty key.
RECURSIVE ScanPath(_, _, _)
ScanPath(str, i, acc) ==
  IF i > Len(str) THEN acc
  ELSE IF str[i] # "."
  THEN ScanPath(str, RunEnd(str, i) + 1,
                Append(acc, CharsToKey(SubSeq(str, i, RunEnd(str, i)))))
  ELSE IF i = Len(str) \/ str[i + 1] = "."
  THEN ScanPath(str, i + 1, Append(acc, ""))
  ELSE ScanPath(str, i + 1, acc)

\* lodash stringToPath: a leading '.' gives a leading empty key.
stringToPath(str) ==
  ScanPath(str, 1, IF str # <<>> /\ str[1] = "." THEN <<"">> ELSE <<>>)

\* lodash castPath: a string without '.' is one key (isKey).
castPath(str) ==
  IF \A i \in 1 .. Len(str) : str[i] # "." THEN <<CharsToKey(str)>>
  ELSE stringToPath(str)

\* object[key] in JavaScript.
PropGet(x, k) ==
  IF IsComposite(x) THEN (IF k \in DOMAIN x.c THEN x.c[k] ELSE Undefined)
  ELSE IF x.t = "string" /\ k = "0" /\ x.v # "" THEN x
  ELSE Undefined

\* lodash baseGet.
RECURSIVE baseGet(_, _)
baseGet(x, keys) ==
  IF keys = <<>> THEN x
  ELSE IF x.t \in {"null", "undefined"} THEN Undefined
  ELSE baseGet(PropGet(x, Head(keys)), Tail(keys))

\* Storage.getValueAtPath: _.get(obj, path).
getValueAtPath(obj, path) == baseGet(obj, castPath(path))

\* lodash assignValue on a mapping or a sequence.
Assign(x, k, v) ==
  IF x.t = "array"
  THEN ArrN((k :> v) @@ x.c,
            IF IsIndex(k) /\ KeyIndex(k) + 1 > x.n THEN KeyIndex(k) + 1 ELSE x.n)
  ELSE Obj((k :> v) @@ x.c)

\* lodash baseSet: a missing or primitive intermediate becomes [] before an
\* index key and {} otherwise; a primitive root is returned as it is.
RECURSIVE baseSet(_, _, _)
baseSet(x, keys, v) ==
  IF ~IsComposite(x) THEN x
  ELSE IF Len(keys) = 1 THEN Assign(x, keys[1], v)
  ELSE LET objValue == PropGet(x, keys[1])
           nested == IF IsComposite(objValue) THEN objValue
                     ELSE IF IsIndex(keys[2]) THEN EmptyArr ELSE EmptyObj
       IN Assign(x, keys[1], baseSet(nested, Tail(keys), v))

\* Storage.setValueAtPath: _.set(_.cloneDeep(obj), path, value).
setValueAtPath(obj, path, value) == baseSet(obj, castPath(path), value)

\* lodash baseUnset: delete parent[key]; an array keeps its length.
RECURSIVE baseUnset(_, _)
baseUnset(x, keys) ==
  IF ~IsComposite(x) THEN x
  ELSE IF Len(keys) = 1
  THEN [x EXCEPT !.c = [k \in DOMAIN x.c \ {keys[1]} |-> x.c[k]]]
  ELSE IF keys[1] \in DOMAIN x.c
  THEN [x EXCEPT !.c[keys[1]] = baseUnset(@, Tail(keys))]
  ELSE x

\* Storage.deleteValueAtPath: _.unset(_.cloneDeep(obj), path).
deleteValueAtPath(obj, path) == baseUnset(obj, castPath(path))

\* A diff; threw records the TypeError of Object.keys(null).
DiffOf(added, modified, deleted, threw) ==
  [added |-> added, modified |-> modified, deleted |-> deleted, threw |-> threw]

EmptyDiff == DiffOf(<<>>, <<>>, <<>>, FALSE)

Entry(path, value) == [path |-> path, value |-> value]

ConcatDiff(d, e) ==
  DiffOf(d.added \o e.added, d.modified \o e.modified, d.deleted \o e.deleted,
         d.threw \/ e.threw)

\* Array.isArray(x) ? 'array' : typeof x
TypeOf(x) ==
  IF x.t = "array" THEN "array" ELSE IF x.t = "null" THEN "object" ELSE x.t

RECURSIVE compareObjects(_, _, _)
RECURSIVE compareKeys(_, _, _, _)

\* The loop of Diff._compareObjects over the keys of the new value.
compareKeys(ks, oldValue, newValue, path) ==
  IF ks = <<>> THEN EmptyDiff
  ELSE LET key == Head(ks)
           childPath == ChildPath(path, key)
           here == IF key \notin DOMAIN oldValue.c
                   THEN DiffOf(<<Entry(childPath, newValue.c[key])>>, <<>>, <<>>,
                               FALSE)
                   ELSE compareObjects(oldValue.c[key], newValue.c[key], childPath)
       IN ConcatDiff(here, compareKeys(Tail(ks), oldValue, newValue, path))

\* Diff._compareObjects.
compareObjects(oldValue, newValue, path) ==
  IF oldValue.t = "undefined" /\ newValue.t = "undefined" THEN EmptyDiff
  ELSE IF oldValue.t = "undefined"
  THEN DiffOf(<<Entry(OrDot(path), newValue)>>, <<>>, <<>>, FALSE)
  ELSE IF newValue.t = "undefined"
  THEN DiffOf(<<>>, <<>>, <<OrDot(path)>>, FALSE)
  ELSE IF TypeOf(oldValue) # TypeOf(newValue)
  THEN DiffOf(<<>>, <<Entry(OrDot(path), newValue)>>, <<>>, FALSE)
  ELSE IF TypeOf(oldValue) \notin {"object", "array"}
  THEN IF oldValue # newValue
       THEN DiffOf(<<>>, <<Entry(OrDot(path), newValue)>>, <<>>, FALSE)
       ELSE EmptyDiff
  ELSE IF oldValue.t = "null" \/ newValue.t = "null"
  THEN DiffOf(<<>>, <<>>, <<>>, TRUE)
  ELSE LET gone == SelectSeq(OwnKeys(oldValue.c),
                             LAMBDA k : k \notin DOMAIN newValue.c)
           deleted == [i \in 1 .. Len(gone) |-> ChildPath(path, gone[i])]
       IN ConcatDiff(DiffOf(<<>>, <<>>, deleted, FALSE),
                     compareKeys(OwnKeys(newValue.c), oldValue, newValue, path))

\* Diff.generate.
generate(oldObj, newObj) == compareObjects(oldObj, newObj, <<>>)

RECURSIVE applyDeleted(_, _)
applyDeleted(obj, paths) ==
  IF paths = <<>> THEN obj
  ELSE applyDeleted(deleteValueAtPath(obj, Head(paths)), Tail(paths))

RECURSIVE applySet(_, _)
applySet(obj, items) ==
  IF items = <<>> THEN obj
  ELSE applySet(setValueAtPath(obj, Head(items).path, Head(items).value),
                Tail(items))

\* Diff.apply.
apply(obj, diff) ==
  applySet(applyDeleted(obj, diff.deleted), diff.modified \o diff.added)

\* Diff.invert: additions become deletions, deletions become additions of
\* the value obj has at the path, modifications put that value back.
invert(obj, diff) ==
  DiffOf([i \in 1 .. Len(diff.deleted) |->
            Entry(diff.deleted[i], getValueAtPath(obj, diff.deleted[i]))],
         [i \in 1 .. Len(diff.modified) |->
            Entry(diff.modified[i].path,
                  getValueAtPath(obj, diff.modified[i].path))],
         [i \in 1 .. Len(diff.added) |-> diff.added[i].path],
         FALSE)

HasPath(items, path) == \E i \in 1 .. Len(items) : items[i].path = path
Includes(paths, path) == \E i \in 1 .. Len(paths) : paths[i] = path

\* Diff.findConflicts after its test-environment case.
findConflicts(diffA, diffB) ==
  LET written == diffA.modified \o diffA.added
      both == SelectSeq(written,
                LAMBDA item : \/ HasPath(diffB.modified, item.path)
                              \/ HasPath(diffB.added, item.path)
                              \/ Includes(diffB.deleted, item.path))
      gone == SelectSeq(diffA.deleted,
                LAMBDA path : \/ HasPath(diffB.modified, path)
                              \/ HasPath(diffB.added, path))
  IN [i \in 1 .. Len(both) |-> both[i].path] \o gone

\* item.path === 'settings.theme' || item.path === 'settings' for some
\* item of diff.modified.
SettingsTheme(d) ==
  \/ HasPath(d.modified, <<"settings", ".", "theme">>)
  \/ HasPath(d.modified, <<"settings">>)

\* Diff.findConflicts in an environment: testEnvironment is
\* process.env.NODE_ENV === 'test' || typeof jest !== 'undefined'.
findConflictsIn(testEnvironment, diffA, diffB) ==
  IF testEnvironment /\ SettingsTheme(diffA) /\ SettingsTheme(diffB)
  THEN <<(<<"settings", ".", "theme">>)>>
  ELSE findConflicts(diffA, diffB)

---------------------------------------------------------------------------
(* merge.js *)

\* An isConflicting that takes no path for a conflicting one.
isConflicting_never(conflicts, path) == FALSE

\* isConflicting of Merge._removeConflictingPaths.
isConflicting(conflicts, path) ==
  \E i \in 1 .. Len(conflicts) :
    \/ path = conflicts[i]
    \/ StartsWith(path, conflicts[i] \o <<".">>)
    \/ StartsWith(conflicts[i], path \o <<".">>)

\* Merge._removeConflictingPaths.
removeConflictingPaths(diff, conflicts) ==
  DiffOf(SelectSeq(diff.added, LAMBDA item : ~isConflicting(conflicts, item.path)),
         SelectSeq(diff.modified, LAMBDA item : ~isConflicting(conflicts, item.path)),
         SelectSeq(diff.deleted, LAMBDA path : ~isConflicting(conflicts, path)),
         diff.threw)

\* path.lastIndexOf('.'), 0 when there is none.
LastDot(path) ==
  IF \E i \in 1 .. Len(path) : path[i] = "."
  THEN CHOOSE i \in 1 .. Len(path) :
         path[i] = "." /\ \A j \in i + 1 .. Len(path) : path[j] # "."
  ELSE 0

\* Merge._getValueAtPathWithParent; parentPath <<>> stands for null.
getValueAtPathWithParent(obj, path) ==
  LET d == LastDot(path)
      parentPath == IF d > 0 THEN SubSeq(path, 1, d - 1) ELSE <<>>
      key == IF d > 0 THEN SubSeq(path, d + 1, Len(path)) ELSE path
  IN [value |-> getValueAtPath(obj, path),
      parentPath |-> parentPath,
      key |-> key,
      parent |-> IF parentPath # <<>> THEN getValueAtPath(obj, parentPath)
                 ELSE obj]

\* The entry of Merge.threeWayMerge's conflictDetails for a path.
conflictDetail(ancestor, source, target, path) ==
  [path |-> path,
   ancestor |-> getValueAtPathWithParent(ancestor, path),
   source |-> getValueAtPathWithParent(source, path),
   target |-> getValueAtPathWithParent(target, path)]

\* Merge.threeWayMerge from the conflicting paths on.
mergeWithout(ancestor, source, target, sourceDiff, threw, conflicts) ==
  [threw |-> threw,
   merged |-> apply(target, removeConflictingPaths(sourceDiff, conflicts)),
   hasConflicts |-> Len(conflicts) > 0,
   conflicts |-> [i \in 1 .. Len(conflicts) |->
                    conflictDetail(ancestor, source, target, conflicts[i])]]

\* Merge.threeWayMerge from the two diffs on.
mergeDiffs(ancestor, source, target, sourceDiff, targetDiff) ==
  mergeWithout(ancestor, source, target, sourceDiff,
               sourceDiff.threw \/ targetDiff.threw,
               findConflicts(sourceDiff, targetDiff))

\* Merge.threeWayMerge.
threeWayMerge(ancestor, source, target) ==
  mergeDiffs(ancestor, source, target, generate(ancestor, source),
             generate(ancestor, target))

---------------------------------------------------------------------------
(* storage.js: refs and commits *)

BranchRef(b) == "branch/" \o b

\* Every name an engine call can be given.
BranchNames == Branches \cup {""}

\* Storage.getRef: store.get gives undefined for a missing key.
getRef(rs, name) == IF name \in DOMAIN rs THEN rs[name] ELSE NoRef

\* Storage.saveRef: store.put(hash, name).
saveRef(rs, name, hash) == (name :> hash) @@ rs

\* Storage.deleteRef: store.delete(name).
deleteRef(rs, name) == [n \in DOMAIN rs \ {name} |-> rs[n]]

\* Storage.listRefs(prefix) for the prefix 'branch/'.
listRefs(rs) == {n \in DOMAIN rs : \E b \in BranchNames : n = BranchRef(b)}

\* Storage.saveCommit: store.put(commit) under keyPath 'hash'.
saveCommit(cs, commit) == (commit.hash :> commit) @@ cs

\* Storage.getCommit.
HasCommit(cs, hash) == hash \in DOMAIN cs

CommitRecord(hash, parent, branch, message, timestamp) ==
  [hash |-> hash, parent |-> parent, branch |-> branch, message |-> message,
   timestamp |-> timestamp, rootHash |-> hash]

---------------------------------------------------------------------------
(* branch.js: reads *)

\* Branch.getBranchHead.
getBranchHead(rs, b) == getRef(rs, BranchRef(b))

\* Branch.listBranches.
listBranches(rs) == {b \in BranchNames : BranchRef(b) \in listRefs(rs)}

\* The outcome of a read: a value, or an error kind.
Got(val) == [ok |-> TRUE, val |-> val, err |-> ""]
Threw(err) == [ok |-> FALSE, val |-> Undefined, err |-> err]

\* Branch.getCurrentBranch: the name after 'branch/' in HEAD.
getCurrentBranch(rs) ==
  LET headRef == getRef(rs, "HEAD") IN
  IF headRef = NoRef THEN [ok |-> FALSE, name |-> "", err |-> "HeadNotFound"]
  ELSE IF \E b \in BranchNames : headRef = BranchRef(b)
  THEN [ok |-> TRUE, name |-> CHOOSE b \in BranchNames : headRef = BranchRef(b),
        err |-> ""]
  ELSE [ok |-> FALSE, name |-> "", err |-> "DetachedHead"]

\* Branch.getDataAtCommit.
getDataAtCommit(objs, cs, hash) ==
  IF ~HasCommit(cs, hash) THEN Threw("CommitNotFound")
  ELSE LET tree == retrieveTree(objs, cs[hash].rootHash) IN
       IF tree = ErrTree THEN Threw("NodeNotFound") ELSE Got(toObject(tree))

\* Branch.getBranchData.
getBranchData(objs, rs, cs, b) ==
  LET headHash == getBranchHead(rs, b) IN
  IF headHash = NoRef THEN Threw("BranchNotFound")
  ELSE getDataAtCommit(objs, cs, headHash)

\* TemporalDB.getData.
getData(objs, rs, cs) ==
  LET cur == getCurrentBranch(rs) IN
  IF ~cur.ok THEN Threw(cur.err) ELSE getBranchData(objs, rs, cs, cur.name)

---------------------------------------------------------------------------
(* Engine calls as step machines: one step runs the synchronous code up to *)
(* and including the next awaited storage call.                            *)

\* The stores and the engine flag a call reads and writes.
Store(objs, rs, cs, init, mr) ==
  [objects |-> objs, refs |-> rs, commits |-> cs, initialized |-> init,
   mr |-> mr]

\* A MergeResult object; id tells the objects of different merge calls
\* apart, and id 0 is no object.
MergeResult(id, src, tgt, sourceHead, targetHead, ancestorHash, result) ==
  [id |-> id, sourceBranch |-> src, targetBranch |-> tgt,
   sourceHead |-> sourceHead, targetHead |-> targetHead,
   ancestorHash |-> ancestorHash, mergedData |-> result.merged,
   conflicts |-> result.conflicts, hasConflicts |-> result.hasConflicts,
   applied |-> FALSE]

NoMergeResult ==
  MergeResult(0, "", "", "", "", "",
              [merged |-> Undefined, conflicts |-> <<>>, hasConflicts |-> FALSE])

\* The resolutions argument of resolveWith: given or not, and its
\* Object.entries.
Resolutions(given, entries) == [given |-> given, entries |-> entries]
NoResolutions == Resolutions(FALSE, <<>>)

\* The arguments of a call made without a branch name: the data and the
\* message of commit(data, message), nothing for getHistory() and
\* merge(source).
Given(data, message) == [omitted |-> TRUE, data |-> data, message |-> message]
NotGiven == [omitted |-> FALSE, data |-> Undefined, message |-> ""]

\* The frame of a call: its arguments, its position and its locals.
Frame(op, branch, src, value, msg) ==
  [op |-> op, pc |-> "start", branch |-> branch, src |-> src, value |-> value,
   msg |-> msg, parent |-> NoRef, hash |-> "", puts |-> <<>>, err |-> "",
   ret |-> "", resolutions |-> NoResolutions, mr |-> 0, ord |-> <<>>,
   sourceHead |-> NoRef, targetHead |-> NoRef, headA |-> NoRef,
   ancestorHash |-> NoRef, commitsA |-> <<>>, sourceData |-> Undefined,
   targetData |-> Undefined, io |-> FALSE, time |-> 0, list |-> <<>>,
   names |-> {}, diff |-> EmptyDiff, restored |-> Undefined,
   given |-> NotGiven, diffB |-> EmptyDiff, testEnvironment |-> FALSE]

Idle == [Frame("none", "", "", Undefined, "") EXCEPT !.pc = "idle"]

\* The field io of a frame records that the call has made a call of Storage.
\* Goto and Return end a step that made one; Throw and ReturnSync end a step
\* that made none, ThrowAfter ends a step that threw after one.
Goto(s, f, pc) == [s |-> s, f |-> [f EXCEPT !.pc = pc, !.io = TRUE]]
Throw(s, f, err) == [s |-> s, f |-> [f EXCEPT !.pc = "done", !.err = err]]
ThrowAfter(s, f, err) == Throw(s, [f EXCEPT !.io = TRUE], err)
Return(s, f, ret) == [s |-> s, f |-> [f EXCEPT !.pc = "done", !.ret = ret, !.io = TRUE]]
ReturnSync(s, f, ret) == [s |-> s, f |-> [f EXCEPT !.pc = "done", !.ret = ret]]

\* An engine whose methods do not look at the initialized flag.
ensureInitialized_skipped(s) == ""

\* TemporalDB._ensureInitialized: the error it throws, "" for none.
ensureInitialized(s) == IF s.initialized THEN "" ELSE "NotInitialized"

\* The ref written before the commit record.
commitNext_refFirst(pc) ==
  CASE pc = "put" -> "saveRef"
    [] pc = "saveRef" -> "saveCommit"
    [] pc = "saveCommit" -> "done"

\* The awaited writes of Branch.commit after storeTree, in program order.
commitNext(pc) ==
  CASE pc = "put" -> "saveCommit"
    [] pc = "saveCommit" -> "saveRef"
    [] pc = "saveRef" -> "done"

\* A storeTree that goes on after the put of its first node.
putStep_firstNode(s, f, after) ==
  LET p == Head(f.puts) IN
  [s |-> [s EXCEPT !.objects = put(s.objects, p.node, p.hash)],
   f |-> [f EXCEPT !.puts = <<>>, !.pc = after, !.io = TRUE]]

\* One awaited Storage.put of MerkleTree.storeTree.
putStep(s, f, after) ==
  LET p == Head(f.puts) IN
  [s |-> [s EXCEPT !.objects = put(s.objects, p.node, p.hash)],
   f |-> [f EXCEPT !.puts = Tail(f.puts),
                   !.pc = IF Tail(f.puts) = <<>> THEN after ELSE "put",
                   !.io = TRUE]]

\* A commit that also moves HEAD to the branch.
commitSaveRef_moveHead(rs, b, hash) ==
  saveRef(saveRef(rs, BranchRef(b), hash), "HEAD", BranchRef(b))

\* The ref update of Branch.commit.
commitSaveRef(rs, b, hash) == saveRef(rs, BranchRef(b), hash)

\* The string a template literal makes of a value: `branch/${branchName}`.
RECURSIVE TemplateString(_)
TemplateString(x) ==
  IF x.t = "object" THEN "[object Object]"
  ELSE IF x.t = "array"
  THEN LET el(k) == IF k \notin DOMAIN x.c \/ x.c[k].t \in {"null", "undefined"}
                    THEN "" ELSE TemplateString(x.c[k])
       IN IF x.n = 0 THEN ""
          ELSE IF x.n = 1 THEN el("0") ELSE el("0") \o "," \o el("1")
  ELSE IF x.t = "undefined" THEN "undefined" ELSE x.v

\* A commit that does not read the branch reference for its parent.
branchCommit_noParentRead(s, f) ==
  LET tree == fromObject(f.value) IN
  [s |-> s,
   f |-> [f EXCEPT !.hash = tree.hash,
                   !.puts = storeTreePuts(tree),
                   !.pc = "put", !.io = TRUE]]

\* The start of Branch.commit: the head of the branch is read and the tree
\* of the data is built.
branchCommit(s, f) ==
  LET tree == fromObject(f.value) IN
  [s |-> s,
   f |-> [f EXCEPT !.parent = getRef(s.refs, BranchRef(f.branch)),
                   !.hash = tree.hash,
                   !.puts = storeTreePuts(tree),
                   !.pc = "put", !.io = TRUE]]

\* What Branch.commit is handed by commit(data, message): the call is
\* taken for one without a branch name when the first argument has typeof
\* 'object' and the second is falsy; otherwise the data is the branch name
\* and the message is the data.
shifted(f) ==
  [f EXCEPT !.given = Given(f.value, f.msg),
            !.branch = TemplateString(f.value),
            !.value = IF f.msg = "" THEN Undefined ELSE Leaf("string", f.msg),
            !.msg = ""]

\* TemporalDB.commit and Branch.commit; branch = "" with no given
\* arguments recorded is the call commit(data, message).
commitStep(s, t, f) ==
  CASE f.pc = "start" ->
         IF ensureInitialized(s) # ""
         THEN Throw(s, f, ensureInitialized(s))
         ELSE IF f.branch # "" THEN branchCommit(s, f)
         ELSE IF f.value.t \in {"object", "array", "null"} /\ f.msg = ""
         THEN LET cur == getCurrentBranch(s.refs) IN
              IF ~cur.ok THEN ThrowAfter(s, f, cur.err)
              ELSE Goto(s, [f EXCEPT !.given = Given(f.value, f.msg),
                                     !.branch = cur.name], "commit")
         ELSE branchCommit(s, shifted(f))
    [] f.pc = "commit" -> branchCommit(s, f)
    [] f.pc = "put" -> putStep(s, f, commitNext("put"))
    [] f.pc = "saveCommit" ->
         Goto([s EXCEPT !.commits =
                 saveCommit(s.commits,
                            CommitRecord(f.hash, f.parent, f.branch,
                                         IF f.msg = "" THEN "Update" ELSE f.msg,
                                         t))],
              f, commitNext("saveCommit"))
    [] f.pc = "saveRef" ->
         LET r == Goto([s EXCEPT !.refs =
                          commitSaveRef(s.refs, f.branch, f.hash)],
                       f, commitNext("saveRef"))
         IN [r EXCEPT !.f.ret = f.hash]

\* An init that takes every database for a new one.
mainExists_never(rs) == FALSE

\* Branch.init: the main branch is there already.
mainExists(rs) == getRef(rs, BranchRef("main")) # NoRef

\* TemporalDB.init and Branch.init.
initStep(s, t, f) ==
  CASE f.pc = "start" ->
         IF s.initialized THEN ReturnSync(s, f, "")
         ELSE IF mainExists(s.refs)
         THEN Return([s EXCEPT !.initialized = TRUE], f, "false")
         ELSE LET tree == fromObject(EmptyObj) IN
              [s |-> s,
               f |-> [f EXCEPT !.hash = tree.hash,
                               !.puts = storeTreePuts(tree),
                               !.pc = "put", !.io = TRUE]]
    [] f.pc = "put" -> putStep(s, f, "saveCommit")
    [] f.pc = "saveCommit" ->
         Goto([s EXCEPT !.commits =
                 saveCommit(s.commits,
                            CommitRecord(f.hash, NullParent, "main",
                                         "Initial commit", t))],
              f, "saveRef")
    [] f.pc = "saveRef" ->
         Goto([s EXCEPT !.refs = saveRef(s.refs, BranchRef("main"), f.hash)],
              f, "saveHead")
    [] f.pc = "saveHead" ->
         Return([s EXCEPT !.refs = saveRef(s.refs, "HEAD", BranchRef("main")),
                          !.initialized = TRUE],
                f, "true")

\* createBranch without the check that the new name is free.
createBranchFrom_noExistsCheck(s, f) ==
  IF f.branch = "" THEN Throw(s, f, "NameRequired")
  ELSE Goto(s, f, "getSrc")

\* Branch.createBranch from its first awaited read on.
createBranchFrom(s, f) ==
  IF f.branch = "" THEN Throw(s, f, "NameRequired")
  ELSE IF getRef(s.refs, BranchRef(f.branch)) # NoRef
  THEN ThrowAfter(s, f, "RefExists")
  ELSE Goto(s, f, "getSrc")

\* TemporalDB.branch and Branch.createBranch; src = "" is the omitted source.
createBranchStep(s, t, f) ==
  CASE f.pc = "start" ->
         IF ensureInitialized(s) # ""
         THEN Throw(s, f, ensureInitialized(s))
         ELSE IF f.src = ""
         THEN LET cur == getCurrentBranch(s.refs) IN
              IF ~cur.ok THEN ThrowAfter(s, f, cur.err)
              ELSE Goto(s, [f EXCEPT !.src = cur.name], "getNew")
         ELSE createBranchFrom(s, f)
    [] f.pc = "getNew" -> createBranchFrom(s, f)
    [] f.pc = "getSrc" ->
         LET sourceHead == getBranchHead(s.refs, f.src) IN
         IF sourceHead = NoRef THEN Throw(s, f, "RefNotFound")
         ELSE Goto(s, [f EXCEPT !.hash = sourceHead], "saveRef")
    [] f.pc = "saveRef" ->
         Return([s EXCEPT !.refs = saveRef(s.refs, BranchRef(f.branch), f.hash)],
                f, f.hash)

\* checkout without the check that the branch exists.
checkoutStep_noCheck(s, t, f) ==
  CASE f.pc = "start" ->
         IF ensureInitialized(s) # ""
         THEN Throw(s, f, ensureInitialized(s))
         ELSE Goto(s, [f EXCEPT !.hash = getBranchHead(s.refs, f.branch)],
                   "saveHead")
    [] f.pc = "saveHead" ->
         Return([s EXCEPT !.refs = saveRef(s.refs, "HEAD", BranchRef(f.branch))],
                f, f.hash)

\* TemporalDB.checkout and Branch.checkout.
checkoutStep(s, t, f) ==
  CASE f.pc = "start" ->
         IF ensureInitialized(s) # ""
         THEN Throw(s, f, ensureInitialized(s))
         ELSE LET branchHead == getBranchHead(s.refs, f.branch) IN
              IF branchHead = NoRef THEN ThrowAfter(s, f, "RefNotFound")
              ELSE Goto(s, [f EXCEPT !.hash = branchHead], "saveHead")
    [] f.pc = "saveHead" ->
         Return([s EXCEPT !.refs = saveRef(s.refs, "HEAD", BranchRef(f.branch))],
                f, f.hash)

\* deleteBranch without the check for the checked-out branch.
deleteBranchStep_noCurrentCheck(s, t, f) ==
  CASE f.pc = "start" ->
         IF ensureInitialized(s) # ""
         THEN Throw(s, f, ensureInitialized(s))
         ELSE IF f.branch = "main" THEN Throw(s, f, "ProtectedBranch")
         ELSE LET cur == getCurrentBranch(s.refs) IN
              IF ~cur.ok THEN ThrowAfter(s, f, cur.err)
              ELSE Goto(s, f, "getRef")
    [] f.pc = "getRef" ->
         IF getBranchHead(s.refs, f.branch) = NoRef
         THEN Throw(s, f, "RefNotFound")
         ELSE Goto(s, f, "deleteRef")
    [] f.pc = "deleteRef" ->
         Return([s EXCEPT !.refs = deleteRef(s.refs, BranchRef(f.branch))],
                f, "")

\* TemporalDB.deleteBranch and Branch.deleteBranch.
deleteBranchStep(s, t, f) ==
  CASE f.pc = "start" ->
         IF ensureInitialized(s) # ""
         THEN Throw(s, f, ensureInitialized(s))
         ELSE IF f.branch = "main" THEN Throw(s, f, "ProtectedBranch")
         ELSE LET cur == getCurrentBranch(s.refs) IN
              IF ~cur.ok THEN ThrowAfter(s, f, cur.err)
              ELSE IF cur.name = f.branch
              THEN ThrowAfter(s, f, "ProtectedBranch")
              ELSE Goto(s, f, "getRef")
    [] f.pc = "getRef" ->
         IF getBranchHead(s.refs, f.branch) = NoRef
         THEN Throw(s, f, "RefNotFound")
         ELSE Goto(s, f, "deleteRef")
    [] f.pc = "deleteRef" ->
         Return([s EXCEPT !.refs = deleteRef(s.refs, BranchRef(f.branch))],
                f, "")

\* Storage.getCommitsForBranch: the records of the branch in the order of
\* the index cursor, which is the order ord of the hashes.
getCommitsForBranch(cs, b, ord) ==
  LET hs == SelectSeq(ord, LAMBDA h : h \in DOMAIN cs /\ cs[h].branch = b)
  IN [i \in 1 .. Len(hs) |-> cs[hs[i]]]

\* The result of Merge.findCommonAncestor from the two lists on.
commonAncestor(commitsA, commitsB, headA) ==
  LET inA(h) == \E i \in 1 .. Len(commitsA) : commitsA[i].hash = h
      shared == SelectSeq(commitsB, LAMBDA c : inA(c.hash))
  IN IF shared # <<>> THEN shared[1].hash
     ELSE IF commitsA # <<>> /\ commitsB # <<>>
             /\ commitsA[Len(commitsA)].parent = NullParent
     THEN commitsA[Len(commitsA)].hash
     ELSE IF commitsA # <<>> /\ commitsB # <<>>
             /\ commitsB[Len(commitsB)].parent = NullParent
     THEN commitsB[Len(commitsB)].hash
     ELSE headA

\* The step of Merge.mergeBranches after the common ancestor is known.
ancestorFound(s, f, ancestorHash) ==
  IF ancestorHash = NoRef THEN Throw(s, f, "NoCommonAncestor")
  ELSE Goto(s, [f EXCEPT !.ancestorHash = ancestorHash], "sourceData")

\* The end of Merge.mergeBranches: the MergeResult object is returned.
merged(s, f, result) ==
  IF result.threw THEN Throw(s, f, "TypeError")
  ELSE Return([s EXCEPT !.mr =
                 MergeResult(f.mr, f.src, f.branch, f.sourceHead, f.targetHead,
                             f.ancestorHash, result)],
              [f EXCEPT !.sourceData = Undefined, !.targetData = Undefined],
              "")

\* TemporalDB.merge, Merge.mergeBranches and Merge.findCommonAncestor;
\* branch = "" is the omitted target.
mergeStep(s, t, f) ==
  CASE f.pc = "start" ->
         IF ensureInitialized(s) # ""
         THEN Throw(s, f, ensureInitialized(s))
         ELSE IF f.branch = ""
         THEN LET cur == getCurrentBranch(s.refs) IN
              IF ~cur.ok THEN ThrowAfter(s, f, cur.err)
              ELSE Goto(s, [f EXCEPT !.given = Given(Undefined, ""),
                                     !.branch = cur.name], "sourceHead")
         ELSE Goto(s, [f EXCEPT !.sourceHead = getBranchHead(s.refs, f.src)],
                   "targetHead")
    [] f.pc = "sourceHead" ->
         Goto(s, [f EXCEPT !.sourceHead = getBranchHead(s.refs, f.src)],
              "targetHead")
    [] f.pc = "targetHead" ->
         LET targetHead == getBranchHead(s.refs, f.branch) IN
         IF f.sourceHead = NoRef THEN Throw(s, f, "SourceNotFound")
         ELSE IF targetHead = NoRef THEN Throw(s, f, "TargetNotFound")
         ELSE Goto(s, [f EXCEPT !.targetHead = targetHead], "headA")
    [] f.pc = "headA" ->
         LET headA == getBranchHead(s.refs, f.src) IN
         IF f.src = f.branch THEN ancestorFound(s, f, headA)
         ELSE Goto(s, [f EXCEPT !.headA = headA], "headB")
    [] f.pc = "headB" ->
         IF f.headA = getBranchHead(s.refs, f.branch)
         THEN ancestorFound(s, f, f.headA)
         ELSE Goto(s, f, "commitsA")
    [] f.pc = "commitsA" ->
         Goto(s, [f EXCEPT !.commitsA =
                    getCommitsForBranch(s.commits, f.src, f.ord)],
              "commitsB")
    [] f.pc = "commitsB" ->
         ancestorFound(s, [f EXCEPT !.commitsA = <<>>],
                       commonAncestor(f.commitsA,
                                      getCommitsForBranch(s.commits, f.branch,
                                                          f.ord),
                                      f.headA))
    [] f.pc = "sourceData" ->
         LET d == getDataAtCommit(s.objects, s.commits, f.sourceHead) IN
         IF ~d.ok THEN Throw(s, f, d.err)
         ELSE Goto(s, [f EXCEPT !.sourceData = d.val], "targetData")
    [] f.pc = "targetData" ->
         LET d == getDataAtCommit(s.objects, s.commits, f.targetHead) IN
         IF ~d.ok THEN Throw(s, f, d.err)
         ELSE Goto(s, [f EXCEPT !.targetData = d.val], "ancestorData")
    [] f.pc = "ancestorData" ->
         LET d == getDataAtCommit(s.objects, s.commits, f.ancestorHash) IN
         IF ~d.ok THEN Throw(s, f, d.err)
         ELSE merged(s, f, threeWayMerge(d.val, f.sourceData, f.targetData))

\* A resolveWith that takes no resolutions for no conflicts.
unresolved_never(mr, resolutions) == FALSE

\* MergeResult.resolveWith: this.hasConflicts && !resolutions.
unresolved(mr, resolutions) == mr.hasConflicts /\ ~resolutions.given

\* A resolveWith that does not look at the applied flag.
resolveWithStart_noAppliedCheck(s, f) ==
  IF unresolved(s.mr, f.resolutions)
  THEN Throw(s, f, "UnresolvedConflicts")
  ELSE IF ~s.initialized THEN Throw(s, f, "NotInitialized")
  ELSE LET finalData == applySet(s.mr.mergedData, f.resolutions.entries)
       IN branchCommit(s, [f EXCEPT !.branch = s.mr.targetBranch,
                                    !.value = finalData,
                                    !.msg = IF f.msg = "" THEN "Merge" ELSE f.msg])

\* MergeResult.resolveWith up to the first awaited read of Branch.commit.
resolveWithStart(s, f) ==
  IF s.mr.applied THEN Throw(s, f, "AlreadyApplied")
  ELSE resolveWithStart_noAppliedCheck(s, f)

\* A resolveWith that forgets to mark the object.
markApplied_never(r) == r

\* this.applied = true when Branch.commit has returned, on the object the
\* call was made on.
markApplied(r) ==
  IF r.f.pc = "done" /\ r.s.mr.id = r.f.mr
  THEN [r EXCEPT !.s.mr.applied = TRUE]
  ELSE r

\* MergeResult.apply and MergeResult.resolveWith on the object the caller
\* holds; the object is marked applied when Branch.commit has returned.
resolveWithStep(s, t, f) ==
  IF f.pc = "start"
  THEN IF f.op = "apply" /\ s.mr.hasConflicts
       THEN Throw(s, f, "UnresolvedConflicts")
       ELSE resolveWithStart(s, f)
  ELSE markApplied(commitStep(s, t, f))

\* An abort that does not look at the applied flag.
abortStep_noAppliedCheck(s, t, f) ==
  ReturnSync([s EXCEPT !.mr.applied = TRUE], f, "")

\* MergeResult.abort.
abortStep(s, t, f) ==
  IF s.mr.applied THEN Throw(s, f, "AlreadyApplied")
  ELSE ReturnSync([s EXCEPT !.mr.applied = TRUE], f, "")

\* Branch.getDataAtTime: the first record of the cursor whose timestamp is
\* not after the time.
getDataAtTime(objs, cs, commitList, time) ==
  LET at == {i \in 1 .. Len(commitList) : commitList[i].timestamp <= time} IN
  IF at = {} THEN Threw("NoCommitBefore")
  ELSE getDataAtCommit(objs, cs,
                       commitList[CHOOSE i \in at : \A j \in at : i <= j].hash)

\* The end of a read that gives data: the value is returned or the error
\* of the read is thrown.
readData(s, f, d) ==
  IF ~d.ok THEN ThrowAfter(s, f, d.err)
  ELSE Return(s, [f EXCEPT !.value = d.val], "")

\* The call a reading method of TemporalDB delegates to Branch.
readBranch(s, f) ==
  CASE f.op = "getCurrentBranch" ->
         LET cur == getCurrentBranch(s.refs) IN
         IF ~cur.ok THEN ThrowAfter(s, f, cur.err) ELSE Return(s, f, cur.name)
    [] f.op = "listBranches" ->
         Return(s, [f EXCEPT !.names = listBranches(s.refs)], "")
    [] f.op \in {"getData", "getBranchData"} ->
         readData(s, f, getBranchData(s.objects, s.refs, s.commits, f.branch))
    [] f.op = "getDataAtCommit" ->
         readData(s, f, getDataAtCommit(s.objects, s.commits, f.hash))
    [] f.op = "getDataAt" ->
         readData(s, f,
                  getDataAtTime(s.objects, s.commits,
                                getCommitsForBranch(s.commits, f.branch, f.ord),
                                f.time))
    [] f.op = "getHistory" ->
         Return(s, [f EXCEPT !.list =
                      getCommitsForBranch(s.commits, f.branch, f.ord)],
                "")

ReadOps == {"getCurrentBranch", "listBranches", "getData", "getBranchData", "getDataAtCommit", "getDataAt", "getHistory"}

\* The reading methods of TemporalDB: getCurrentBranch, listBranches,
\* getData, getBranchData, getDataAtCommit, getDataAt and getHistory;
\* branch = "" is the omitted name of getHistory.
readStep(s, t, f) ==
  CASE f.pc = "start" ->
         IF ensureInitialized(s) # ""
         THEN Throw(s, f, ensureInitialized(s))
         ELSE IF f.op = "getData" \/ (f.op = "getHistory" /\ f.branch = "")
         THEN LET cur == getCurrentBranch(s.refs) IN
              IF ~cur.ok THEN ThrowAfter(s, f, cur.err)
              ELSE Goto(s, [f EXCEPT !.given = Given(Undefined, ""),
                                     !.branch = cur.name], "read")
         ELSE readBranch(s, f)
    [] f.pc = "read" -> readBranch(s, f)

\* TemporalDB.close.
closeStep(s, t, f) ==
  IF s.initialized THEN ReturnSync([s EXCEPT !.initialized = FALSE], f, "")
  ELSE ReturnSync(s, f, "")

\* One step of a call in flight.
Step(s, t, f) ==
  CASE f.op = "init" -> initStep(s, t, f)
    [] f.op = "commit" -> commitStep(s, t, f)
    [] f.op = "branch" -> createBranchStep(s, t, f)
    [] f.op = "checkout" -> checkoutStep(s, t, f)
    [] f.op = "deleteBranch" -> deleteBranchStep(s, t, f)
    [] f.op = "merge" -> mergeStep(s, t, f)
    [] f.op \in {"apply", "resolveWith"} -> resolveWithStep(s, t, f)
    [] f.op = "abort" -> abortStep(s, t, f)
    [] f.op \in ReadOps -> readStep(s, t, f)
    [] f.op = "close" -> closeStep(s, t, f)

\* A call run to completion with no other call in between.
RECURSIVE Run(_, _, _)
RunOn(r, t) == Run(r.s, t, r.f)

Run(s, t, f) ==
  IF f.pc = "done" THEN [s |-> s, f |-> f] ELSE RunOn(Step(s, t, f), t)

---------------------------------------------------------------------------
(* The engine used by one caller: every call runs to completion. *)

\* The callers that can have a call in flight at the same time.
Procs == {"p1", "p2"}

Init ==
  /\ objects = <<>>
  /\ refs = <<>>
  /\ commits = <<>>
  /\ initialized = FALSE
  /\ now = 1
  /\ last = Idle
  /\ procs = [p \in Procs |-> Idle]
  /\ ncalls = 0
  /\ mergeResult = NoMergeResult
  /\ nmerges = 0

\* Date.now() advances.
Tick ==
  /\ now < MaxTime
  /\ now' = now + 1
  /\ UNCHANGED <<objects, refs, commits, initialized, last, procs, ncalls,
                 mergeResult, nmerges>>

\* The orders in which an index cursor can deliver the records of the
\* hashes hs: the order of the hashes, which the content does not fix.
CursorOrders(hs) ==
  {q \in [1 .. Cardinality(hs) -> hs] :
     \A i, j \in 1 .. Cardinality(hs) : q[i] = q[j] => i = j}

\* The cursor orders a step of the call f can meet; a merge of a branch
\* into itself opens no cursor.
OrdersFor(f) ==
  IF \/ f.op = "merge" /\ f.pc \in {"start", "commitsA", "commitsB"}
        /\ f.src # f.branch
     \/ f.op \in {"getHistory", "getDataAt"}
  THEN CursorOrders(DOMAIN commits)
  ELSE {<<>>}

\* The stores after the steps of a call.
Stored(r) ==
  /\ objects' = r.s.objects
  /\ refs' = r.s.refs
  /\ commits' = r.s.commits
  /\ initialized' = r.s.initialized
  /\ mergeResult' = r.s.mr

\* A call has run to completion.
Called(r) ==
  /\ Stored(r)
  /\ last' = [r.f EXCEPT !.ord = <<>>]
  /\ UNCHANGED <<now, procs>>

Call(f) ==
  \E ord \in OrdersFor(f) :
    Called(Run(Store(objects, refs, commits, initialized, mergeResult), now,
               [f EXCEPT !.ord = ord]))

DbInit ==
  /\ Call(Frame("init", "", "", Undefined, ""))
  /\ UNCHANGED <<ncalls, nmerges>>

\* TemporalDB.close.
Close ==
  /\ Call(Frame("close", "", "", Undefined, ""))
  /\ UNCHANGED <<ncalls, nmerges>>

CommitOf(values, budget) ==
  \E b \in Branches, v \in values, m \in Messages :
    /\ ncalls < budget
    /\ ncalls' = ncalls + 1
    /\ Call(Frame("commit", b, "", v, m))
    /\ UNCHANGED nmerges

Commit == CommitOf(CommitValues, MaxCommits)

CreateBranch ==
  \E b \in BranchNames, src \in BranchNames :
    /\ Call(Frame("branch", b, src, Undefined, ""))
    /\ UNCHANGED <<ncalls, nmerges>>

Checkout ==
  \E b \in Branches :
    /\ Call(Frame("checkout", b, "", Undefined, ""))
    /\ UNCHANGED <<ncalls, nmerges>>

DeleteBranch ==
  \E b \in Branches :
    /\ Call(Frame("deleteBranch", b, "", Undefined, ""))
    /\ UNCHANGED <<ncalls, nmerges>>

Next ==
  \/ Tick
  \/ DbInit
  \/ Commit
  \/ CreateBranch
  \/ Checkout
  \/ DeleteBranch

Spec == Init /\ [][Next]_vars

---------------------------------------------------------------------------
(* The engine used by one caller who also merges branches. *)

\* The resolutions handed to resolveWith.
ResolutionSet ==
  {NoResolutions, Resolutions(TRUE, <<Entry(<<"a">>, Str1)>>)}

\* A call on the MergeResult object the caller holds; apply and
\* resolveWith count as commits.
OnMergeResult(f) ==
  /\ mergeResult.id # 0
  /\ f.op # "abort" => ncalls < MaxMergeCommits
  /\ ncalls' = IF f.op # "abort" THEN ncalls + 1 ELSE ncalls
  /\ Call([f EXCEPT !.mr = mergeResult.id])
  /\ UNCHANGED nmerges

\* A branch named feature is created from main or from the current branch.
MergeCreateBranch ==
  \E src \in {"", "main"} :
    /\ Call(Frame("branch", "feature", src, Undefined, ""))
    /\ UNCHANGED <<ncalls, nmerges>>

MergeCommit == CommitOf(MergeValues, MaxMergeCommits)

Merge ==
  \E src \in Branches, tgt \in {"", "main"} :
    /\ nmerges < MaxMerges
    /\ nmerges' = nmerges + 1
    /\ Call([Frame("merge", tgt, src, Undefined, "") EXCEPT !.mr = nmerges + 1])
    /\ UNCHANGED ncalls

Apply == OnMergeResult(Frame("apply", "", "", Undefined, ""))

ResolveWith ==
  \E res \in ResolutionSet :
    OnMergeResult([Frame("resolveWith", "", "", Undefined, "")
                     EXCEPT !.resolutions = res])

Abort == OnMergeResult(Frame("abort", "", "", Undefined, ""))

NextMerge ==
  \/ DbInit
  \/ MergeCommit
  \/ MergeCreateBranch
  \/ Checkout
  \/ DeleteBranch
  \/ Merge
  \/ Apply
  \/ ResolveWith
  \/ Abort

SpecMerge == Init /\ [][NextMerge]_vars

---------------------------------------------------------------------------
(* Two branches that diverge, are merged, and whose merge is settled. *)

ResolveCreateBranch ==
  /\ Call(Frame("branch", "feature", "main", Undefined, ""))
  /\ UNCHANGED <<ncalls, nmerges>>

\* The two branches are given different values at the same path.
ResolveCommit ==
  \E b \in Branches : \E v \in ResolveValues[b], m \in Messages :
    /\ ncalls < MaxResolveCommits
    /\ ncalls' = ncalls + 1
    /\ Call(Frame("commit", b, "", v, m))
    /\ UNCHANGED nmerges

ResolveMerge ==
  \E src \in Branches, tgt \in Branches :
    /\ nmerges < MaxMerges
    /\ nmerges' = nmerges + 1
    /\ Call([Frame("merge", tgt, src, Undefined, "") EXCEPT !.mr = nmerges + 1])
    /\ UNCHANGED ncalls

\* A call on the MergeResult object the caller holds; apply and
\* resolveWith are counted after the commits, and no commit follows them.
Settle(f) ==
  /\ mergeResult.id # 0
  /\ f.op # "abort" => ncalls < MaxResolveCommits + MaxTerminalCalls
  /\ ncalls' = IF f.op = "abort" THEN ncalls
               ELSE IF ncalls < MaxResolveCommits THEN MaxResolveCommits + 1
               ELSE ncalls + 1
  /\ Call([f EXCEPT !.mr = mergeResult.id])
  /\ UNCHANGED nmerges

SettleApply == Settle(Frame("apply", "", "", Undefined, ""))

SettleResolveWith ==
  \E res \in ResolutionSet :
    Settle([Frame("resolveWith", "", "", Undefined, "") EXCEPT !.resolutions = res])

SettleAbort == Settle(Frame("abort", "", "", Undefined, ""))

NextResolve ==
  \/ DbInit
  \/ ResolveCreateBranch
  \/ ResolveCommit
  \/ ResolveMerge
  \/ SettleApply
  \/ SettleResolveWith
  \/ SettleAbort

SpecResolve == Init /\ [][NextResolve]_vars

---------------------------------------------------------------------------
(* A branch merged into itself, for committed values of every kind. *)

SelfValues == {Null, Num1, Arr("0" :> Num1), Obj("a" :> Null), Obj("a" :> Num1)}

SelfCommit == CommitOf(SelfValues, MaxCommits)

SelfMerge ==
  \E b \in Branches :
    /\ Call([Frame("merge", b, b, Undefined, "") EXCEPT !.mr = 1])
    /\ UNCHANGED <<ncalls, nmerges>>

NextSelf ==
  \/ DbInit
  \/ ResolveCreateBranch
  \/ SelfCommit
  \/ SelfMerge

SpecSelf == Init /\ [][NextSelf]_vars

---------------------------------------------------------------------------
(* A branch forked from main, both changed at the same path, then merged. *)

ForkValues == [main |-> {Obj("a" :> Num1), Obj("a" :> EmptyArr)}, feature |-> {Obj("a" :> Str1)}]

ForkCommit ==
  \E b \in Branches : \E v \in ForkValues[b], m \in Messages :
    /\ ncalls < MaxForkCommits
    /\ ncalls' = ncalls + 1
    /\ Call(Frame("commit", b, "", v, m))
    /\ UNCHANGED nmerges

ForkMerge ==
  /\ Call([Frame("merge", "main", "feature", Undefined, "") EXCEPT !.mr = 1])
  /\ UNCHANGED <<ncalls, nmerges>>

NextFork ==
  \/ DbInit
  \/ ResolveCreateBranch
  \/ ForkCommit
  \/ ForkMerge

SpecFork == Init /\ [][NextFork]_vars

---------------------------------------------------------------------------
(* The diff of two values, applied to the first: TemporalDB.diff and        *)
(* TemporalDB.applyDiff, which need no storage.                            *)

\* Primitives and null, mappings with a nested mapping, sequences of the
\* lengths 0, 1 and 2.
DiffValues ==
  {Null, Num1, Str1, EmptyObj, Obj("a" :> Num1), Obj("a" :> Obj("a" :> Str1)),
   EmptyArr, Arr("0" :> Num1), Arr("0" :> Num1 @@ "1" :> Str1),
   Obj("a" :> Arr("0" :> Num1)), Obj("a" :> EmptyArr)}

\* The caller holds oldObj (value) and newObj (sourceData).
InitDiff ==
  /\ objects = <<>>
  /\ refs = <<>>
  /\ commits = <<>>
  /\ initialized = FALSE
  /\ now = 1
  /\ last \in {[Frame("diff", "", "", a, "") EXCEPT !.sourceData = b] : a \in DiffValues, b \in DiffValues}
  /\ procs = [p \in Procs |-> Idle]
  /\ ncalls = 0
  /\ mergeResult = NoMergeResult
  /\ nmerges = 0

\* The diff of a call of diff, or the TypeError it throws.
diffed(f, d) ==
  IF d.threw THEN [f EXCEPT !.pc = "done", !.err = "TypeError"]
  ELSE [f EXCEPT !.pc = "diffed", !.diff = d]

\* TemporalDB.diff(oldObj, newObj).
DbDiff ==
  /\ last.op = "diff" /\ last.pc = "start"
  /\ last' = diffed(last, generate(last.value, last.sourceData))
  /\ UNCHANGED <<objects, refs, commits, initialized, now, procs, ncalls, mergeResult, nmerges>>

\* TemporalDB.applyDiff(oldObj, diff).
DbApplyDiff ==
  /\ last.op = "diff" /\ last.pc = "diffed"
  /\ last' = [last EXCEPT !.op = "applyDiff", !.pc = "done",
                          !.targetData = apply(last.value, last.diff)]
  /\ UNCHANGED <<objects, refs, commits, initialized, now, procs, ncalls, mergeResult, nmerges>>

\* Diff.apply(patched, Diff.invert(oldObj, diff)) on the patched value.
DbInvert ==
  /\ last.op = "applyDiff" /\ last.pc = "done"
  /\ last' = [last EXCEPT !.op = "invert",
                          !.restored = apply(last.targetData,
                                             invert(last.value, last.diff))]
  /\ UNCHANGED <<objects, refs, commits, initialized, now, procs, ncalls, mergeResult, nmerges>>

NextDiff == DbDiff \/ DbApplyDiff \/ DbInvert

SpecDiff == InitDiff /\ [][NextDiff]_vars

---------------------------------------------------------------------------
(* The Merkle tree of two values and the way back: MerkleTree.fromObject    *)
(* and MerkleTree.toObject, which need no storage.                         *)

\* The values of diff, and mappings with the keys of a sequence.
MerkleValues ==
  DiffValues \cup {Obj("0" :> Num1), Obj("0" :> Num1 @@ "1" :> Str1)}

\* The caller holds two values (value and sourceData).
InitMerkle ==
  /\ objects = <<>>
  /\ refs = <<>>
  /\ commits = <<>>
  /\ initialized = FALSE
  /\ now = 1
  /\ last \in {[Frame("fromObject", "", "", a, "") EXCEPT !.sourceData = b] : a \in MerkleValues, b \in MerkleValues}
  /\ procs = [p \in Procs |-> Idle]
  /\ ncalls = 0
  /\ mergeResult = NoMergeResult
  /\ nmerges = 0

\* MerkleTree.fromObject on both values; the root hashes are kept.
MerkleFromObject ==
  /\ last.op = "fromObject" /\ last.pc = "start"
  /\ last' = [last EXCEPT !.pc = "hashed", !.hash = fromObject(last.value).hash,
                          !.sourceHead = fromObject(last.sourceData).hash]
  /\ UNCHANGED <<objects, refs, commits, initialized, now, procs, ncalls, mergeResult, nmerges>>

\* MerkleTree.toObject on the tree of the first value.
MerkleToObject ==
  /\ last.op = "fromObject" /\ last.pc = "hashed"
  /\ last' = [last EXCEPT !.op = "toObject", !.pc = "done",
                          !.restored = toObject(fromObject(last.value))]
  /\ UNCHANGED <<objects, refs, commits, initialized, now, procs, ncalls, mergeResult, nmerges>>

NextMerkle == MerkleFromObject \/ MerkleToObject

SpecMerkle == InitMerkle /\ [][NextMerkle]_vars

---------------------------------------------------------------------------
(* The conflicts of two diffs: Diff.findConflicts on the diffs             *)
(* Diff.generate makes of two pairs of values.                             *)

\* Mappings whose key a is missing, a primitive or a nested mapping, and
\* mappings with the key settings.
ConflictValues ==
  {EmptyObj, Obj("a" :> Num1), Obj("a" :> Str1), Obj("a" :> Obj("a" :> Str1)),
   Obj("a" :> Obj("a" :> Num1)), Obj("settings" :> Num1),
   Obj("settings" :> Obj("theme" :> Num1)), Obj("settings" :> Obj("theme" :> Str1))}

\* The caller holds two pairs of values: (value, sourceData) and
\* (targetData, restored); the process runs in a test environment or not.
InitConflict ==
  /\ objects = <<>>
  /\ refs = <<>>
  /\ commits = <<>>
  /\ initialized = FALSE
  /\ now = 1
  /\ last \in {[Frame("findConflicts", "", "", a, "") EXCEPT !.sourceData = b, !.targetData = c, !.restored = d, !.testEnvironment = e] : a \in ConflictValues, b \in ConflictValues, c \in ConflictValues, d \in ConflictValues, e \in BOOLEAN}
  /\ procs = [p \in Procs |-> Idle]
  /\ ncalls = 0
  /\ mergeResult = NoMergeResult
  /\ nmerges = 0

\* The two diffs of a call of findConflicts, or the TypeError generate
\* throws.
diffedBoth(f, d, e) ==
  IF d.threw \/ e.threw THEN [f EXCEPT !.pc = "done", !.err = "TypeError"]
  ELSE [f EXCEPT !.pc = "diffed", !.diff = d, !.diffB = e]

\* Diff.generate on both pairs.
ConflictDiffs ==
  /\ last.op = "findConflicts" /\ last.pc = "start"
  /\ last' = diffedBoth(last, generate(last.value, last.sourceData),
                        generate(last.targetData, last.restored))
  /\ UNCHANGED <<objects, refs, commits, initialized, now, procs, ncalls, mergeResult, nmerges>>

\* Diff.findConflicts(diffA, diffB).
FindConflicts ==
  /\ last.op = "findConflicts" /\ last.pc = "diffed"
  /\ last' = [last EXCEPT !.pc = "done", !.list = findConflictsIn(last.testEnvironment, last.diff, last.diffB)]
  /\ UNCHANGED <<objects, refs, commits, initialized, now, procs, ncalls, mergeResult, nmerges>>

NextConflict == ConflictDiffs \/ FindConflicts

SpecConflict == InitConflict /\ [][NextConflict]_vars

---------------------------------------------------------------------------
(* The three-way merge of three values: Merge.threeWayMerge, which needs   *)
(* no storage.                                                             *)

\* Mappings with the keys a and 0, a being a primitive or a nested mapping.
ThreeWayValues ==
  {EmptyObj, Obj("a" :> Num1), Obj("a" :> Str1),
   Obj("0" :> Num1 @@ "a" :> Num1), Obj("0" :> Str1 @@ "a" :> Str1),
   Obj("0" :> Num1 @@ "a" :> Str1),
   Obj("a" :> Obj("a" :> Num1)), Obj("a" :> Obj("a" :> Str1))}

\* The caller holds ancestor (value), source (sourceData) and target
\* (targetData).
InitThreeWay ==
  /\ objects = <<>>
  /\ refs = <<>>
  /\ commits = <<>>
  /\ initialized = FALSE
  /\ now = 1
  /\ last \in {[Frame("threeWayMerge", "", "", a, "") EXCEPT !.sourceData = b, !.targetData = c] : a \in ThreeWayValues, b \in ThreeWayValues, c \in ThreeWayValues}
  /\ procs = [p \in Procs |-> Idle]
  /\ ncalls = 0
  /\ mergeResult = NoMergeResult
  /\ nmerges = 0

\* sourceDiff and targetDiff of Merge.threeWayMerge.
ThreeWayDiffs ==
  /\ last.op = "threeWayMerge" /\ last.pc = "start"
  /\ last' = diffedBoth(last, generate(last.value, last.sourceData),
                        generate(last.value, last.targetData))
  /\ UNCHANGED <<objects, refs, commits, initialized, now, procs, ncalls, mergeResult, nmerges>>

\* The result of Merge.threeWayMerge: merged is kept in restored, the paths
\* of the conflicts in list.
threeWayMerged(f, result) ==
  [f EXCEPT !.pc = "done", !.restored = result.merged,
            !.list = [i \in 1 .. Len(result.conflicts) |-> result.conflicts[i].path]]

\* Merge.threeWayMerge from the two diffs on.
ThreeWayMerge ==
  /\ last.op = "threeWayMerge" /\ last.pc = "diffed"
  /\ last' = threeWayMerged(last, mergeDiffs(last.value, last.sourceData, last.targetData, last.diff, last.diffB))
  /\ UNCHANGED <<objects, refs, commits, initialized, now, procs, ncalls, mergeResult, nmerges>>

NextThreeWay == ThreeWayDiffs \/ ThreeWayMerge

SpecThreeWay == InitThreeWay /\ [][NextThreeWay]_vars

---------------------------------------------------------------------------
(* The engine opened, read, written and closed by one caller. *)

LifeValues == {Obj("a" :> Num1)}

\* The arguments of the reading calls: branch names, the hashes of the
\* values that can be committed and of one that cannot, and times.
ReadFrames ==
  {Frame(op, "", "", Undefined, "") : op \in {"getCurrentBranch", "listBranches", "getData"}}
  \cup {Frame(op, "feature", "", Undefined, "") : op \in {"getBranchData", "getHistory"}}
  \cup {[Frame("getDataAtCommit", "", "", Undefined, "") EXCEPT !.hash = fromObject(v).hash] : v \in {EmptyObj, Str1}}
  \cup {[Frame("getDataAt", "main", "", Undefined, "") EXCEPT !.time = tm] : tm \in 0 .. MaxTime}

Read ==
  \E f \in ReadFrames :
    /\ Call(f)
    /\ UNCHANGED <<ncalls, nmerges>>

LifeCommit == CommitOf(LifeValues, MaxLifeCommits)

LifeCreateBranch ==
  /\ Call(Frame("branch", "feature", "main", Undefined, ""))
  /\ UNCHANGED <<ncalls, nmerges>>

\* A merge whose MergeResult object is only looked at.
LifeMerge ==
  \E tgt \in {"", "main"} :
    /\ Call([Frame("merge", tgt, "feature", Undefined, "") EXCEPT !.mr = 1])
    /\ UNCHANGED <<ncalls, nmerges>>

NextLife ==
  \/ DbInit
  \/ Close
  \/ LifeCommit
  \/ LifeCreateBranch
  \/ Checkout
  \/ DeleteBranch
  \/ Read
  \/ LifeMerge

SpecLife == Init /\ [][NextLife]_vars

---------------------------------------------------------------------------
(* The history of a branch and its data at a time, read while the clock    *)
(* advances between the commits.                                           *)

HistoryValues == {Num1, Str1}

HistoryCommit == CommitOf(HistoryValues, MaxHistoryCommits)

\* TemporalDB.getHistory(branchName).
GetHistory ==
  \E b \in Branches :
    /\ Call(Frame("getHistory", b, "", Undefined, ""))
    /\ UNCHANGED <<ncalls, nmerges>>

\* TemporalDB.getDataAt(branchName, timestamp).
GetDataAt ==
  \E b \in Branches, tm \in 0 .. MaxTime :
    /\ Call([Frame("getDataAt", b, "", Undefined, "") EXCEPT !.time = tm])
    /\ UNCHANGED <<ncalls, nmerges>>

NextHistory ==
  \/ Tick
  \/ DbInit
  \/ HistoryCommit
  \/ LifeCreateBranch
  \/ GetHistory
  \/ GetDataAt

SpecHistory == Init /\ [][NextHistory]_vars

---------------------------------------------------------------------------
(* The calls that leave the branch name out: commit(data, message),         *)
(* getHistory() and merge(source).                                         *)

\* A mapping and a number, with and without a message.
DefaultValues == {Obj("a" :> Num1), Num1}
MaxDefaultCommits == 2

\* TemporalDB.commit(data, message) and TemporalDB.commit(data).
DefaultCommit ==
  \E v \in DefaultValues, m \in Messages \cup {""} :
    /\ ncalls < MaxDefaultCommits
    /\ ncalls' = ncalls + 1
    /\ Call(Frame("commit", "", "", v, m))
    /\ UNCHANGED nmerges

\* TemporalDB.getHistory().
DefaultHistory ==
  /\ Call(Frame("getHistory", "", "", Undefined, ""))
  /\ UNCHANGED <<ncalls, nmerges>>

\* TemporalDB.merge(sourceBranch) whose MergeResult object is only looked at.
DefaultMerge ==
  \E src \in Branches :
    /\ Call([Frame("merge", "", src, Undefined, "") EXCEPT !.mr = 1])
    /\ UNCHANGED <<ncalls, nmerges>>

NextDefault ==
  \/ DbInit
  \/ LifeCreateBranch
  \/ Checkout
  \/ DefaultCommit
  \/ DefaultHistory
  \/ DefaultMerge

SpecDefault == Init /\ [][NextDefault]_vars

---------------------------------------------------------------------------
(* The engine used by concurrent callers: calls interleave at their        *)
(* awaited storage calls.                                                  *)

CallFrames ==
  {Frame("init", "", "", Undefined, "")}
  \cup {Frame("commit", b, "", v, "m") : b \in Branches, v \in AsyncValues}
  \cup {Frame("branch", "feature", "main", Undefined, "")}
  \cup {Frame("checkout", b, "", Undefined, "") : b \in Branches}
  \cup {Frame("deleteBranch", "feature", "", Undefined, "")}
  \cup {Frame("apply", "", "", Undefined, "")}
  \cup {[Frame("resolveWith", "", "", Undefined, "")
           EXCEPT !.resolutions = Resolutions(TRUE, <<Entry(<<"a">>, Str1)>>)]}

\* A call is made while others are in flight; it takes the first free
\* slot.  init is called on an engine that is not initialized.
AsyncStart(p) ==
  /\ procs[p].pc = "idle"
  /\ p = "p2" => procs["p1"].pc # "idle"
  /\ \E f \in CallFrames :
       /\ f.op = "init" => ~initialized
       /\ f.op # "init" => ncalls < MaxAsyncCalls
       /\ f.op \in {"apply", "resolveWith"} => mergeResult.id # 0
       /\ ncalls' = IF f.op # "init" THEN ncalls + 1 ELSE ncalls
       /\ procs' = [procs EXCEPT ![p] = [f EXCEPT !.mr = mergeResult.id]]
  /\ UNCHANGED <<objects, refs, commits, initialized, now, last, mergeResult,
                 nmerges>>

\* The storage call a call in flight waits for completes, and the call
\* runs on to its next storage call.
Stepped(p, r) ==
  /\ Stored(r)
  /\ procs' = [procs EXCEPT ![p] = IF r.f.pc = "done" THEN Idle
                                    ELSE [r.f EXCEPT !.ord = <<>>]]

AsyncStep(p) ==
  /\ procs[p].pc # "idle"
  /\ \E ord \in OrdersFor(procs[p]) :
       Stepped(p, Step(Store(objects, refs, commits, initialized, mergeResult),
                       now, [procs[p] EXCEPT !.ord = ord]))
  /\ UNCHANGED <<now, last, ncalls, nmerges>>

\* A merge of main into itself whose reads no other call comes between.
AsyncMerge ==
  /\ nmerges < MaxMerges
  /\ nmerges' = nmerges + 1
  /\ LET r == Run(Store(objects, refs, commits, initialized, mergeResult), now,
                  [Frame("merge", "main", "main", Undefined, "")
                     EXCEPT !.mr = nmerges + 1])
     IN mergeResult' = r.s.mr
  /\ UNCHANGED <<objects, refs, commits, initialized, now, last, procs, ncalls>>

NextAsync ==
  \/ \E p \in Procs : AsyncStart(p)
  \/ \E p \in Procs : AsyncStep(p)
  \/ AsyncMerge

SpecAsync == Init /\ [][NextAsync]_vars

---------------------------------------------------------------------------
(* A commit that is cut off: one caller, whose commit goes storage call by *)
(* storage call and can be abandoned between any two of them.              *)

\* A sequence, which has the hash of the initial mapping, and a mapping
\* with two nodes.
CutValues == {EmptyArr, Obj("a" :> Num1)}

\* commit(branch, data, message) is called.
CutStart ==
  /\ initialized
  /\ procs["p1"].pc = "idle"
  /\ ncalls < MaxCutCommits
  /\ ncalls' = ncalls + 1
  /\ \E b \in Branches, v \in CutValues :
       procs' = [procs EXCEPT !["p1"] = Frame("commit", b, "", v, "m")]
  /\ UNCHANGED <<objects, refs, commits, initialized, now, last, mergeResult,
                 nmerges>>

\* The call in flight is cut off at the storage call it waits for: what
\* it has written stays, the rest is never written.
Cut ==
  /\ procs["p1"].pc # "idle"
  /\ procs' = [procs EXCEPT !["p1"] = Idle]
  /\ last' = [procs["p1"] EXCEPT !.err = "Cut"]
  /\ UNCHANGED <<objects, refs, commits, initialized, now, ncalls, mergeResult,
                 nmerges>>

NextCut ==
  \/ DbInit
  \/ LifeCreateBranch
  \/ CutStart
  \/ AsyncStep("p1")
  \/ Cut

SpecCut == Init /\ [][NextCut]_vars

---------------------------------------------------------------------------
(* checkout and deleteBranch in flight together, on an engine that is      *)
(* initialized and has branches.                                           *)

HeadFrames ==
  {Frame("checkout", b, "", Undefined, "") : b \in Branches}
  \cup {Frame("deleteBranch", "feature", "", Undefined, "")}

\* A checkout or a deleteBranch is called while another may be in flight.
HeadStart(p) ==
  /\ initialized
  /\ procs[p].pc = "idle"
  /\ ncalls < MaxHeadCalls
  /\ ncalls' = ncalls + 1
  /\ \E f \in HeadFrames : procs' = [procs EXCEPT ![p] = f]
  /\ UNCHANGED <<objects, refs, commits, initialized, now, last, mergeResult,
                 nmerges>>

\* branch('feature', 'main') and a commit, made while no call is in flight.
HeadCreateBranch ==
  /\ \A p \in Procs : procs[p].pc = "idle"
  /\ LifeCreateBranch

HeadCommit ==
  /\ \A p \in Procs : procs[p].pc = "idle"
  /\ LifeCommit

NextHead ==
  \/ DbInit
  \/ HeadCreateBranch
  \/ HeadCommit
  \/ \E p \in Procs : HeadStart(p)
  \/ \E p \in Procs : AsyncStep(p)

SpecHead == Init /\ [][NextHead]_vars

(* An init that is cut off, and the init of the next opening of the store. *)

\* init() is called on a store that is not yet initialized.
InitStart ==
  /\ ~initialized
  /\ procs["p1"].pc = "idle"
  /\ procs' = [procs EXCEPT !["p1"] = Frame("init", "", "", Undefined, "")]
  /\ UNCHANGED <<objects, refs, commits, initialized, now, last, ncalls,
                 mergeResult, nmerges>>

\* init() called while no call is in flight, run to its end.
Restart ==
  /\ procs["p1"].pc = "idle"
  /\ DbInit

RestartRead ==
  /\ procs["p1"].pc = "idle"
  /\ Read

RestartCommit ==
  /\ procs["p1"].pc = "idle"
  /\ LifeCommit

NextRestart ==
  \/ InitStart
  \/ AsyncStep("p1")
  \/ Cut
  \/ Restart
  \/ RestartRead
  \/ RestartCommit

SpecRestart == Init /\ [][NextRestart]_vars

---------------------------------------------------------------------------
(* Properties *)

\* A step of Spec that is the engine call op (Tick is the only step that
\* moves the clock; every call records itself in last).
IsCall(op) == now' = now /\ last'.op = op

BranchData(b) == getBranchData(objects, refs, commits, b)
HeadRef == getRef(refs, "HEAD")

\* C1: after commit(branch, v, message) returns on an existing branch,
\* getBranchData(branch) is v, and so is getData() when branch is the
\* current branch.
C1_CommitDurability ==
  (last.op = "commit" /\ last.err = "" /\ last.parent # NoRef) =>
    /\ BranchData(last.branch) = Got(last.value)
    /\ getCurrentBranch(refs).name = last.branch =>
         getData(objects, refs, commits) = Got(last.value)

\* A sequence was committed to the current branch over the empty mapping
\* of the initial commit, which has the same hash.
C1_Witness ==
  /\ last.op = "commit" /\ last.err = "" /\ last.parent # NoRef
  /\ last.value = EmptyArr
  /\ last.hash = fromObject(EmptyObj).hash
  /\ getCurrentBranch(refs).name = last.branch

\* C2: commit(A, v, message) leaves getBranchData(B) unchanged for every
\* existing branch B other than A.
C2_BranchIsolation ==
  [][(IsCall("commit") /\ last'.err = "" /\ last'.parent # NoRef) =>
       \A b \in listBranches(refs) \ {last'.branch} :
         getBranchData(objects', refs', commits', b) = BranchData(b)]_vars

\* C4: a commit record, once stored under a hash, reads back the same in
\* every later state.
C4_CommitRecordImmutable ==
  [][\A h \in DOMAIN commits : h \in DOMAIN commits' /\ commits'[h] = commits[h]]_vars

\* C5: a commit of a value equal to the snapshot at the branch head either
\* writes nothing and leaves the head, or gets a hash other than its
\* parent's and leaves the parent's record as it was.
C5_IdenticalSnapshotCommit ==
  [][(/\ IsCall("commit") /\ last'.err = ""
      /\ BranchData(last'.branch) = Got(last'.value)) =>
       \/ commits' = commits /\ refs' = refs
       \/ /\ last'.ret # last'.parent
          /\ commits'[last'.parent] = commits[last'.parent]]_vars

\* C6: commit on a branch name with no ref fails with a ref-not-found error
\* and leaves refs, commit records and the list of branches unchanged.
C6_CommitMissingBranchFails ==
  [][(IsCall("commit") /\ initialized
      /\ getBranchHead(refs, last'.branch) = NoRef) =>
       /\ last'.err = "RefNotFound"
       /\ refs' = refs
       /\ commits' = commits
       /\ listBranches(refs') = listBranches(refs)]_vars

\* The source of a branch call: the current branch when it was omitted.
SourceOf(f) == IF f.src = "" THEN getCurrentBranch(refs).name ELSE f.src

\* C8: branch(new, src) succeeds only when src exists and new does not;
\* it then sets branch/new to the head of src, so that both branches have
\* the same data, and changes no other ref, no commit record and not HEAD;
\* when new exists or src is missing it fails and leaves all refs.
C8_CreateBranch ==
  [][IsCall("branch") =>
       LET f == last'
           new == f.branch
           src == SourceOf(f)
           srcHead == getBranchHead(refs, src)
           newHead == getBranchHead(refs, new)
       IN /\ f.err = "" =>
               /\ srcHead # NoRef /\ newHead = NoRef
               /\ refs' = saveRef(refs, BranchRef(new), srcHead)
               /\ getBranchData(objects', refs', commits', new)
                    = getBranchData(objects', refs', commits', src)
               /\ getBranchData(objects', refs', commits', new) = BranchData(src)
               /\ commits' = commits /\ objects' = objects
               /\ getRef(refs', "HEAD") = HeadRef
          /\ (newHead # NoRef \/ srcHead = NoRef) =>
               f.err # "" /\ refs' = refs]_vars

\* A branch was created from a source that has data.
C8_Witness ==
  /\ last.op = "branch" /\ last.err = ""
  /\ last.branch # last.src
  /\ BranchData(last.branch).ok
  /\ BranchData(last.branch) = BranchData(last.src)

\* C9: checkout(n) of an existing branch sets HEAD to branch/n and changes
\* nothing else, and getCurrentBranch() is then n; checkout of a missing
\* branch fails and leaves HEAD.
C9_Checkout ==
  [][IsCall("checkout") =>
       LET f == last' IN
       /\ (initialized /\ getBranchHead(refs, f.branch) # NoRef) =>
            /\ f.err = ""
            /\ refs' = saveRef(refs, "HEAD", BranchRef(f.branch))
            /\ commits' = commits /\ objects' = objects
            /\ getCurrentBranch(refs') = [ok |-> TRUE, name |-> f.branch, err |-> ""]
       /\ getBranchHead(refs, f.branch) = NoRef =>
            /\ f.err # ""
            /\ refs' = refs /\ commits' = commits /\ objects' = objects]_vars

\* A checkout moved HEAD to a branch other than main.
C9_Witness ==
  /\ last.op = "checkout" /\ last.err = ""
  /\ last.branch # "main"
  /\ HeadRef = BranchRef(last.branch)

\* C10: deleteBranch(n) fails and changes nothing when n is main, the
\* checked-out branch or missing; otherwise it removes only branch/n:
\* commit records and objects stay, the data of the old head can still be
\* read, and every other ref and HEAD are unchanged.
C10_DeleteBranch ==
  [][IsCall("deleteBranch") =>
       LET f == last'
           n == f.branch
           oldHead == getBranchHead(refs, n)
       IN IF \/ n = "main"
             \/ getCurrentBranch(refs).name = n
             \/ oldHead = NoRef
             \/ ~initialized
          THEN /\ f.err # ""
               /\ refs' = refs /\ commits' = commits /\ objects' = objects
          ELSE /\ f.err = ""
               /\ refs' = deleteRef(refs, BranchRef(n))
               /\ DOMAIN refs' = DOMAIN refs \ {BranchRef(n)}
               /\ commits' = commits /\ objects' = objects
               /\ getDataAtCommit(objects', commits', oldHead).ok
               /\ getRef(refs', "HEAD") = HeadRef]_vars

\* A branch that had a commit of its own was deleted.
C10_Witness ==
  /\ last.op = "deleteBranch" /\ last.err = ""
  /\ getBranchHead(refs, last.branch) = NoRef
  /\ \E h \in DOMAIN commits : commits[h].branch = last.branch

\* C3: in every state, the states inside init, commit, createBranch, apply
\* and resolveWith and the interleavings of two calls included, every ref
\* branch/<name> holds the hash of a stored commit record.
C3_RefsPointToCommits ==
  \A n \in listRefs(refs) : HasCommit(commits, refs[n])

\* An apply or resolveWith and a commit are both in flight, each with its
\* commit record written and its ref update still to come.
C3_Witness ==
  /\ listRefs(refs) # {}
  /\ \E p, q \in Procs :
       /\ procs[p].op \in {"apply", "resolveWith"} /\ procs[p].pc = "saveRef"
       /\ procs[q].op = "commit" /\ procs[q].pc = "saveRef"
       /\ HasCommit(commits, procs[p].hash)
       /\ HasCommit(commits, procs[q].hash)

\* C7: a call other than checkout and init (commit, branch, deleteBranch,
\* merge, apply, resolveWith, abort) leaves HEAD, and with it the result of
\* getCurrentBranch; so does an init that finds branch/main.
C7_HeadWrittenOnlyByCheckout ==
  [][/\ (now' = now /\ last'.op \notin {"checkout", "init"}) =>
          /\ getRef(refs', "HEAD") = HeadRef
          /\ getCurrentBranch(refs') = getCurrentBranch(refs)
     /\ (IsCall("init") /\ getBranchHead(refs, "main") # NoRef) =>
          getRef(refs', "HEAD") = HeadRef]_vars

\* A merge was applied to main while feature was checked out.
C7_Witness ==
  /\ last.op = "apply" /\ last.err = ""
  /\ last.branch = "main"
  /\ HeadRef = BranchRef("feature")
  /\ mergeResult.applied
  /\ getBranchHead(refs, "main") = last.hash

\* C11: the first init on an empty database creates exactly one commit
\* record (parent null, branch main, the root hash of the empty mapping),
\* sets branch/main to its hash and HEAD to branch/main; an init on a
\* database that is not empty changes no ref, no commit record and no object.
C11_Init ==
  [][IsCall("init") =>
       IF objects = <<>> /\ refs = <<>> /\ commits = <<>>
       THEN LET h == fromObject(EmptyObj).hash IN
            /\ DOMAIN commits' = {h}
            /\ commits'[h].parent = NullParent
            /\ commits'[h].branch = "main"
            /\ commits'[h].rootHash = h
            /\ retrieveTree(objects', h) # ErrTree
            /\ getRef(refs', BranchRef("main")) = h
            /\ getRef(refs', "HEAD") = BranchRef("main")
       ELSE objects' = objects /\ refs' = refs /\ commits' = commits]_vars

C11_Witness ==
  /\ last.op = "init"
  /\ last.ret = "false"
  /\ initialized
  /\ HeadRef = BranchRef("feature")
  /\ getBranchHead(refs, "main") # fromObject(EmptyObj).hash

\* The methods of TemporalDB that go to storage.
EngineOps == ReadOps \cup {"branch", "checkout", "commit", "merge", "deleteBranch"}

\* C12: a storage-touching method of the engine called before init or after
\* close fails with the not-initialized error and makes no call of storage;
\* init on an initialized engine makes no call of storage and changes
\* nothing.
C12_NotInitialized ==
  [][/\ (~initialized /\ now' = now /\ last'.op \in EngineOps) =>
          /\ last'.err = "NotInitialized"
          /\ ~last'.io
          /\ UNCHANGED <<objects, refs, commits, initialized, mergeResult>>
     /\ (initialized /\ IsCall("init")) =>
          /\ last'.err = ""
          /\ ~last'.io
          /\ UNCHANGED <<objects, refs, commits, initialized, mergeResult>>]_vars

C12_Witness ==
  /\ ~initialized
  /\ getBranchHead(refs, "feature") # NoRef
  /\ last.op = "getDataAt"
  /\ last.time = now
  /\ last.err = "NotInitialized"

\* The step is a call of op on the MergeResult object the caller holds.
IsSettle(ops) == now' = now /\ nmerges' = nmerges /\ last'.op \in ops

\* C13: on one MergeResult at most one call of apply, resolveWith and abort
\* writes a commit: a call that commits finds applied false and leaves it
\* true, applied stays true, and every call on an applied object fails and
\* changes no ref, no commit record and no object.
C13_CommitsAtMostOnce ==
  [][/\ (IsSettle({"apply", "resolveWith"}) /\ last'.err = "") =>
          ~mergeResult.applied /\ mergeResult'.applied
     /\ (IsSettle({"abort"}) /\ last'.err = "") => mergeResult'.applied
     /\ (mergeResult.applied /\ mergeResult'.id = mergeResult.id) =>
          mergeResult'.applied
     /\ (IsSettle({"apply", "resolveWith", "abort"}) /\ mergeResult.applied) =>
          /\ last'.err # ""
          /\ UNCHANGED <<objects, refs, commits>>]_vars

\* A call on a MergeResult that was resolved and committed fails.
C13_Witness ==
  /\ last.op \in {"apply", "resolveWith", "abort"}
  /\ last.err # ""
  /\ mergeResult.applied
  /\ mergeResult.hasConflicts
  /\ \E h \in DOMAIN commits : commits[h].message = "Merge"

\* C14: apply, and resolveWith without resolutions, on a MergeResult with
\* conflicts that is not applied fail with the unresolved-conflicts error,
\* write nothing (no commit record, no ref, no object) and leave applied
\* false.
C14_UnresolvedConflicts ==
  [][(/\ mergeResult.hasConflicts
      /\ ~mergeResult.applied
      /\ \/ IsSettle({"apply"})
         \/ IsSettle({"resolveWith"}) /\ ~last'.resolutions.given) =>
       /\ last'.err = "UnresolvedConflicts"
       /\ UNCHANGED <<objects, refs, commits>>
       /\ ~mergeResult'.applied
       /\ mergeResult'.hasConflicts]_vars

C14_Witness ==
  /\ last.op = "resolveWith"
  /\ ~last.resolutions.given
  /\ last.err = "UnresolvedConflicts"
  /\ mergeResult.hasConflicts
  /\ ~mergeResult.applied
  /\ getBranchHead(refs, mergeResult.targetBranch) = mergeResult.targetHead

\* The mapping v with the value x at the key k.
WithKey(v, k, x) == Obj((k :> x) @@ v.c)

\* The step is a resolveWith with resolutions on a MergeResult that is not
\* applied and whose merged data is a mapping.
IsResolve ==
  /\ IsSettle({"resolveWith"})
  /\ last'.resolutions.given
  /\ ~mergeResult.applied
  /\ mergeResult.mergedData.t = "object"

\* What resolveWith leaves: the merged data with the resolutions set is the
\* data of the target branch, and the object is applied.
Resolved ==
  /\ last'.err = ""
  /\ \A i \in 1 .. Len(last'.resolutions.entries) :
       LET e == last'.resolutions.entries[i] IN
       getBranchData(objects', refs', commits', mergeResult.targetBranch)
         = Got(WithKey(mergeResult.mergedData, CharsToKey(e.path), e.value))
  /\ mergeResult'.applied

C16_MergeAndAbortWriteNothing ==
  [][/\ (now' = now /\ last'.op = "merge") =>
          UNCHANGED <<objects, refs, commits, initialized>>
     /\ IsSettle({"abort"}) =>
          /\ UNCHANGED <<objects, refs, commits, initialized>>
          /\ mergeResult' = [mergeResult EXCEPT !.applied = TRUE]
          /\ last'.err = IF mergeResult.applied THEN "AlreadyApplied" ELSE ""]_vars

\* A merge with conflicts was aborted.
C16_Witness ==
  /\ last.op = "abort" /\ last.err = ""
  /\ mergeResult.applied
  /\ mergeResult.hasConflicts
  /\ getBranchHead(refs, "main") = mergeResult.targetHead
  /\ getBranchHead(refs, "feature") = mergeResult.sourceHead

\* C17: a merge of an existing branch into itself returns a MergeResult
\* with no conflicts whose merged data is the data of the branch.
C17_SelfMerge ==
  [][(/\ now' = now /\ last'.op = "merge"
      /\ last'.src = last'.branch
      /\ initialized
      /\ getBranchHead(refs, last'.src) # NoRef) =>
       /\ last'.err = ""
       /\ mergeResult'.conflicts = <<>>
       /\ ~mergeResult'.hasConflicts
       /\ Got(mergeResult'.mergedData)
            = getBranchData(objects, refs, commits, last'.src)]_vars

\* The commit a is reached from the commit h in at most n parent steps.
RECURSIVE ReachesIn(_, _, _, _)
ReachesIn(cs, h, a, n) ==
  \/ h = a
  \/ n > 0 /\ h \in DOMAIN cs /\ ReachesIn(cs, cs[h].parent, a, n - 1)

IsAncestor(cs, a, h) == ReachesIn(cs, h, a, Cardinality(DOMAIN cs))

\* C18: when the head of the target is an ancestor of the head of the
\* source, the merge of source into target returns no conflicts and the
\* data of the source as merged data.
C18_FastForward ==
  [][(/\ now' = now /\ last'.op = "merge"
      /\ initialized
      /\ getBranchHead(refs, last'.src) # NoRef
      /\ getBranchHead(refs, last'.branch) # NoRef
      /\ IsAncestor(commits, getBranchHead(refs, last'.branch),
                    getBranchHead(refs, last'.src))) =>
       /\ last'.err = ""
       /\ ~mergeResult'.hasConflicts
       /\ Got(mergeResult'.mergedData)
            = getBranchData(objects, refs, commits, last'.src)]_vars

\* The value at the path p in the snapshot of the commit h.
ValueAt(h, p) == getValueAtPath(getDataAtCommit(objects, commits, h).val, p)

\* The source was committed to once since it was branched from the target
\* at the commit fork, the target has moved on from there, and the values
\* at the path p in the three snapshots differ from each other.
Diverged(sourceHead, targetHead, fork, p) ==
  /\ sourceHead \in DOMAIN commits
  /\ fork = commits[sourceHead].parent
  /\ fork \in DOMAIN commits
  /\ fork \notin {sourceHead, targetHead}
  /\ IsAncestor(commits, fork, targetHead)
  /\ ~IsAncestor(commits, sourceHead, targetHead)
  /\ ValueAt(fork, p) # ValueAt(sourceHead, p)
  /\ ValueAt(fork, p) # ValueAt(targetHead, p)
  /\ ValueAt(sourceHead, p) # ValueAt(targetHead, p)

\* C19: a merge of a source and a target that diverged at the path a from
\* their fork point returns exactly one conflict, at that path, with the
\* values of the fork point, of the source head and of the target head.
C19_ConflictRecord ==
  [][\A fork \in DOMAIN commits :
       (/\ now' = now /\ last'.op = "merge"
        /\ initialized
        /\ Diverged(getBranchHead(refs, last'.src),
                    getBranchHead(refs, last'.branch), fork, <<"a">>)) =>
         /\ last'.err = ""
         /\ Len(mergeResult'.conflicts) = 1
         /\ mergeResult'.conflicts[1].path = <<"a">>
         /\ mergeResult'.conflicts[1].ancestor.value = ValueAt(fork, <<"a">>)
         /\ mergeResult'.conflicts[1].source.value
              = ValueAt(getBranchHead(refs, last'.src), <<"a">>)
         /\ mergeResult'.conflicts[1].target.value
              = ValueAt(getBranchHead(refs, last'.branch), <<"a">>)]_vars

\* C20: for all values a and b the diff of a and b applied to a gives a
\* value structurally equal to b (the call of diff does not throw, and
\* applyDiff returns b).
C20_DiffApply ==
  /\ (last.op = "diff" /\ last.pc = "done") => last.err = ""
  /\ (last.op = "applyDiff" /\ last.pc = "done") =>
       last.targetData = last.sourceData

\* C21: for all values a and b, with d the diff of a and b, the inverse of
\* d applied to the patched value gives a value structurally equal to a.
C21_InvertRestores ==
  (last.op = "invert" /\ last.pc = "done") => last.restored = last.value

\* C22: two values whose trees have the same root hash are structurally
\* equal; a mapping and a sequence with the same keys and children have
\* different root hashes.
C22_HashInjective ==
  (last.op \in {"fromObject", "toObject"} /\ last.pc # "start" /\ last.hash = last.sourceHead) =>
    last.value = last.sourceData

\* C23: toObject(fromObject(v)) is v, and a committed value is read back
\* from the store as v: from its stored tree, and by getData when the branch
\* of the commit is the current one.
C23_RoundTrip ==
  (last.op = "commit" /\ last.err = "" /\ last.pc = "done") =>
    /\ toObject(fromObject(last.value)) = last.value
    /\ toObject(retrieveTree(objects, fromObject(last.value).hash)) = last.value
    /\ getCurrentBranch(refs).name = last.branch /\ last.parent # NoRef =>
         getData(objects, refs, commits) = Got(last.value)

\* The hashes of the commit records attributed to the branch b.
Attributed(b) == {h \in DOMAIN commits : commits[h].branch = b}

\* C24: getHistory(b) returns exactly the commit records whose branch field
\* is b, each once, ordered by non-increasing timestamp.
C24_History ==
  (last.op = "getHistory" /\ last.pc = "done" /\ last.err = "") =>
    /\ {last.list[i] : i \in 1 .. Len(last.list)} = {commits[h] : h \in Attributed(last.branch)}
    /\ Len(last.list) = Cardinality(Attributed(last.branch))
    /\ \A i, j \in 1 .. Len(last.list) :
         i < j => last.list[i].timestamp >= last.list[j].timestamp

\* The commits attributed to b that are the latest not after the time tm.
LatestAt(b, tm) ==
  {h \in Attributed(b) :
     /\ commits[h].timestamp <= tm
     /\ \A g \in Attributed(b) :
          commits[g].timestamp <= tm => commits[g].timestamp <= commits[h].timestamp}

\* C25: getDataAt(b, t) returns the snapshot of the commit attributed to b
\* with the greatest timestamp not after t; with no such commit it fails
\* with the no-commit-before error and changes no state.
C25_DataAtTime ==
  [][(initialized /\ IsCall("getDataAt")) =>
       IF LatestAt(last'.branch, last'.time) = {}
       THEN /\ last'.err = "NoCommitBefore"
            /\ UNCHANGED <<objects, refs, commits, initialized, mergeResult>>
       ELSE /\ last'.err = ""
            /\ \E h \in LatestAt(last'.branch, last'.time) :
                 getDataAtCommit(objects, commits, h) = Got(last'.value)]_vars

\* C26: a call without a branch name acts on the branch HEAD names:
\* commit(data, message) leaves a commit record with the hash of the data,
\* the message and the current branch, and the head of the current branch
\* at it; getHistory() returns the records of the current branch; the
\* target of merge(source) is the current branch.
C26_DefaultBranch ==
  [][(initialized /\ now' = now /\ last'.given.omitted /\ getCurrentBranch(refs).ok) =>
       LET cur == getCurrentBranch(refs).name
           hash == fromObject(last'.given.data).hash
       IN /\ last'.op = "commit" =>
               /\ last'.err = ""
               /\ HasCommit(commits', hash)
               /\ commits'[hash].branch = cur
               /\ commits'[hash].message = (IF last'.given.message = "" THEN "Update"
                                            ELSE last'.given.message)
               /\ getBranchHead(refs', cur) = hash
          /\ last'.op = "getHistory" =>
               /\ last'.err = ""
               /\ {last'.list[i] : i \in 1 .. Len(last'.list)}
                    = {commits[h] : h \in Attributed(cur)}
          /\ last'.op = "merge" =>
               /\ last'.branch = cur
               /\ last'.err = "" => mergeResult'.targetBranch = cur]_vars

\* The tree of the hash is completely stored.
Resolves(objs, hash) == retrieveTree(objs, hash) # ErrTree

\* C27: a commit writes its commit record when every node of the tree of
\* its data is stored, and updates the ref of its branch when the record is
\* stored; after every step each stored commit record's rootHash resolves
\* to a completely stored tree.
C27_CommitWriteOrder ==
  [][/\ \A p \in Procs :
          (procs[p].op = "commit" /\ procs'[p] # procs[p]) =>
            /\ commits' # commits =>
                 /\ procs[p].puts = <<>>
                 /\ Resolves(objects, procs[p].hash)
                 /\ refs' = refs
            /\ refs' # refs =>
                 /\ HasCommit(commits, procs[p].hash)
                 /\ getBranchHead(refs', procs[p].branch) = procs[p].hash
     /\ \A h \in DOMAIN commits' : Resolves(objects', commits'[h].rootHash)]_vars

\* A commit has stored the two nodes of its tree, its record is not written
\* and the ref of its branch is not at its hash.
C27_Witness ==
  \E p \in Procs :
    /\ procs[p].op = "commit" /\ procs[p].pc = "saveCommit"
    /\ Cardinality(DOMAIN objects) >= 3
    /\ Resolves(objects, procs[p].hash)
    /\ ~HasCommit(commits, procs[p].hash)
    /\ getBranchHead(refs, procs[p].branch) # procs[p].hash

\* The commit a is reachable through parent pointers from both heads.
CommonAncestor(a, sourceHead, targetHead) ==
  IsAncestor(commits, a, sourceHead) /\ IsAncestor(commits, a, targetHead)

\* C28: the merge base of two existing branches with different heads is
\* reachable through parent pointers from both heads, and no other commit
\* reachable from both heads is a descendant of it.
C28_MergeBase ==
  [][(/\ now' = now /\ last'.op = "merge" /\ last'.err = ""
      /\ initialized
      /\ getBranchHead(refs, last'.src) # NoRef
      /\ getBranchHead(refs, last'.branch) # NoRef
      /\ getBranchHead(refs, last'.src) # getBranchHead(refs, last'.branch)) =>
       LET sourceHead == getBranchHead(refs, last'.src)
           targetHead == getBranchHead(refs, last'.branch)
           base == mergeResult'.ancestorHash
       IN /\ CommonAncestor(base, sourceHead, targetHead)
          /\ \A c \in DOMAIN commits :
               (c # base /\ CommonAncestor(c, sourceHead, targetHead)) =>
                 ~IsAncestor(commits, base, c)]_vars

\* The path is in added or modified of the diff; it is in deleted.
Written(d, path) == HasPath(d.added, path) \/ HasPath(d.modified, path)
Deleted(d, path) == Includes(d.deleted, path)

\* Every path of a diff.
PathsOf(d) ==
  {d.added[i].path : i \in 1 .. Len(d.added)}
  \cup {d.modified[i].path : i \in 1 .. Len(d.modified)}
  \cup {d.deleted[i] : i \in 1 .. Len(d.deleted)}

\* C29: findConflicts(A, B) returns, each once, exactly the paths written
\* in both diffs or deleted in one and written in the other; a path deleted
\* in both is not returned.
C29_FindConflicts ==
  (last.op = "findConflicts" /\ last.pc = "done" /\ last.err = "") =>
    /\ {last.list[i] : i \in 1 .. Len(last.list)}
         = {p \in PathsOf(last.diff) \cup PathsOf(last.diffB) :
              \/ Written(last.diff, p) /\ Written(last.diffB, p)
              \/ Deleted(last.diff, p) /\ Written(last.diffB, p)
              \/ Written(last.diff, p) /\ Deleted(last.diffB, p)}
    /\ \A i, j \in 1 .. Len(last.list) : last.list[i] = last.list[j] => i = j

\* The path p is a proper ancestor of the path q.
ProperAncestor(p, q) == q # p /\ StartsWith(q, p \o <<".">>)

\* C30: when a path of one diff is a proper ancestor of a path of the
\* other, findConflicts returns one of the two paths.
C30_AncestorConflict ==
  (last.op = "findConflicts" /\ last.pc = "done" /\ last.err = "") =>
    \A p \in PathsOf(last.diff), q \in PathsOf(last.diffB) :
      (ProperAncestor(p, q) \/ ProperAncestor(q, p)) =>
        (Includes(last.list, p) \/ Includes(last.list, q))

\* The paths are the same, or one is a proper ancestor of the other.
Related(p, q) == p = q \/ ProperAncestor(p, q) \/ ProperAncestor(q, p)

\* The diff without every entry whose path is related to one of the paths.
Without(d, paths) ==
  LET free(p) == \A i \in 1 .. Len(paths) : ~Related(p, paths[i]) IN
  DiffOf(SelectSeq(d.added, LAMBDA item : free(item.path)),
         SelectSeq(d.modified, LAMBDA item : free(item.path)),
         SelectSeq(d.deleted, LAMBDA path : free(path)),
         d.threw)

\* The paths the values are looked at.
ProbePaths == {<<"a">>, <<"0">>, <<"a", ".", "a">>}

\* C31: the merged value is apply(target, dS') where dS' is
\* generate(ancestor, source) without the entries whose path is a conflict
\* path, a descendant or an ancestor of one; without conflicts it is
\* apply(target, dS); a path dS' does not touch keeps the target's value.
C31_AutoMerge ==
  (last.op = "threeWayMerge" /\ last.pc = "done" /\ last.err = "") =>
    LET dS == generate(last.value, last.sourceData)
        cleaned == Without(dS, last.list)
    IN /\ last.restored = apply(last.targetData, cleaned)
       /\ last.list = <<>> => last.restored = apply(last.targetData, dS)
       /\ \A p \in ProbePaths :
            (\A q \in PathsOf(cleaned) : ~Related(p, q)) =>
              getValueAtPath(last.restored, p) = getValueAtPath(last.targetData, p)

\* The source and the target both changed the key a, which is the
\* conflict, and the source changed the key 0, which is merged.
C31_Witness ==
  /\ last.op = "threeWayMerge" /\ last.pc = "done"
  /\ last.list = <<(<<"a">>)>>
  /\ last.value = Obj("0" :> Num1 @@ "a" :> Num1)
  /\ last.sourceData = Obj("0" :> Str1 @@ "a" :> Str1)
  /\ last.targetData = Obj("0" :> Num1 @@ "a" :> Str1)
  /\ last.restored = Obj("0" :> Str1 @@ "a" :> Str1)

\* C32: a node record written under a hash is never replaced by a record
\* with different content: after every step the record under the hash has
\* the type and the value or children it had.
C32_NodeImmutable ==
  [][\A h \in DOMAIN objects : h \in DOMAIN objects' /\ objects'[h] = objects[h]]_vars

\* The one modified entry of a diff at the root.
RootModified(newObj) == DiffOf(<<>>, <<Entry(<<".">>, newObj)>>, <<>>, FALSE)

\* C33: generate(a, b) does not fail; for equal values, null against null
\* included, the diff is empty; for a primitive (null included) against a
\* mapping or a sequence, for a sequence against a mapping, and for two
\* unequal primitives it is one modified entry at the path.
C33_GenerateRules ==
  (last.op \in {"diff", "applyDiff", "invert"} /\ last.pc # "start") =>
    LET a == last.value
        b == last.sourceData
    IN /\ last.err = ""
       /\ a = b => last.diff = EmptyDiff
       /\ (a # b /\ (~IsComposite(a) \/ ~IsComposite(b) \/ a.t # b.t)) =>
            last.diff = RootModified(b)

\* C34: a commit cut off before its ref write leaves the data of every
\* existing branch as it was, and every ref branch/<name> at a stored
\* commit record: no step of a commit before the ref write changes what
\* getBranchData returns for a branch that exists.
C34_CutCommit ==
  [][\A p \in Procs :
       (/\ procs[p].op = "commit"
        /\ procs[p].pc \notin {"idle", "saveRef"}
        /\ procs'[p] # procs[p]) =>
         /\ \A b \in Branches :
              getBranchHead(refs, b) # NoRef =>
                getBranchData(objects', refs', commits', b) = BranchData(b)
         /\ \A n \in listRefs(refs') : HasCommit(commits', refs'[n])]_vars

\* Following parent pointers from the commit h visits no commit of seen
\* and no commit twice, and ends at a commit whose parent is null.
RECURSIVE EndsAtRoot(_, _, _)
EndsAtRoot(cs, h, seen) ==
  /\ h \in DOMAIN cs
  /\ h \notin seen
  /\ cs[h].parent = NullParent \/ EndsAtRoot(cs, cs[h].parent, seen \cup {h})

\* C35: after every step, following parent pointers from the head of a
\* branch visits no commit twice and ends at a commit whose parent is null;
\* the parent of the record of a new commit is the head the branch had
\* before the commit.
C35_ParentChain ==
  [][/\ \A b \in Branches :
          getBranchHead(refs', b) # NoRef => EndsAtRoot(commits', getBranchHead(refs', b), {})
     /\ (IsCall("commit") /\ last'.err = "" /\ getBranchHead(refs, last'.branch) # NoRef) =>
          /\ HasCommit(commits', getBranchHead(refs', last'.branch))
          /\ commits'[getBranchHead(refs', last'.branch)].parent
               = getBranchHead(refs, last'.branch)]_vars

\* C36: in every state after init, the states of a checkout and a
\* deleteBranch in flight together included, HEAD is branch/<n> for a name
\* n and the ref branch/<n> exists.
C36_HeadNamesBranch ==
  initialized =>
    /\ getCurrentBranch(refs).ok
    /\ getBranchHead(refs, getCurrentBranch(refs).name) # NoRef

\* The call in flight of p is an apply or a resolveWith on the MergeResult
\* object, with its commit record written and its ref update to come.
Committing(p) ==
  /\ procs[p].op \in {"apply", "resolveWith"}
  /\ procs[p].mr = mergeResult.id
  /\ procs[p].pc = "saveRef"
  /\ HasCommit(commits, procs[p].hash)

\* C37: of two apply or resolveWith calls in flight together on one
\* MergeResult at most one writes a commit: never have both written their
\* commit record.
C37_OneTerminalCommits ==
  \A p, q \in Procs : (p # q /\ Committing(p)) => ~Committing(q)


\* The branch head moved on since the merge result was computed.
TargetMoved == getBranchHead(refs, mergeResult.targetBranch) # mergeResult.targetHead

\* C38: apply(), and resolveWith() without resolutions, commit the value
\* computed when merge() was called: when the target branch received another
\* commit between merge() and apply(), the target's data after the call is
\* MergeResult.mergedData and the parent of the new commit is the head the
\* target had when apply() was called, not MergeResult.targetHead.
C38_AppliesComputedValue ==
  [][(/\ IsSettle({"apply", "resolveWith"})
      /\ last'.err = ""
      /\ ~last'.resolutions.given
      /\ TargetMoved)
     => LET tb == mergeResult.targetBranch IN
        /\ getBranchData(objects', refs', commits', tb) = Got(mergeResult.mergedData)
        /\ HasCommit(commits', getBranchHead(refs', tb))
        /\ commits'[getBranchHead(refs', tb)].parent = getBranchHead(refs, tb)]_vars

\* apply() has committed the merged value on a target that had moved on.
C38_Witness ==
  /\ last.op = "apply" /\ last.pc = "done" /\ last.err = ""
  /\ mergeResult.applied
  /\ LET tb == mergeResult.targetBranch
         h == getBranchHead(refs, tb)
     IN /\ HasCommit(commits, h)
        /\ commits[h].parent \notin {h, mergeResult.targetHead, NoRef, NullParent}
        /\ BranchData(tb) = Got(mergeResult.mergedData)

\* No commit record of the store is newer than tm.
NotBeforeNewest(tm) == \A h \in DOMAIN commits : commits[h].timestamp <= tm

\* C39: for an existing branch b, one just created from another branch
\* included, and a time not earlier than the newest commit timestamp of the
\* store, getDataAt(b, t) succeeds and returns the data of the branch.
C39_DataAtNow ==
  [][(/\ initialized
      /\ IsCall("getDataAt")
      /\ getBranchHead(refs, last'.branch) # NoRef
      /\ NotBeforeNewest(last'.time))
     => /\ last'.err = ""
        /\ Got(last'.value) = BranchData(last'.branch)]_vars

\* C40: when a first init was cut off after branch/main was saved and before
\* HEAD was saved, a later init() that returns leaves HEAD set to
\* branch/main, so that getCurrentBranch() succeeds afterwards.
C40_InitRepairsHead ==
  [][(/\ IsCall("init")
      /\ procs' = procs
      /\ last'.err = ""
      /\ mainExists(refs)
      /\ getRef(refs, "HEAD") = NoRef)
     => /\ getRef(refs', "HEAD") = BranchRef("main")
        /\ getCurrentBranch(refs').ok]_vars
====
